---- MODULE Spec2Model ----
(***************************************************************************)
(* Voile protocol: the LP pool contract (voile-lp-pool), the user account  *)
(* contract (voile-user-account) and the calls made on them.               *)
(*                                                                         *)
(* A Felt is modelled as a natural number.  Every amount of the model is   *)
(* far below the field modulus 2^64 - 2^32 + 1, so Felt addition and the   *)
(* guarded Felt subtractions of the contracts are the integer operations;  *)
(* the guards of the actions cap the balances and counters.                *)
(* A Word is a 4-tuple of Felts.  A StorageMap is a function from the      *)
(* Words that hold a non-zero value to that value: reading any other key   *)
(* gives 0, and writing 0 removes the key.                                 *)
(***************************************************************************)
EXTENDS Integers, Sequences, FiniteSets, TLC

VARIABLES
    pool,   \* storage of the LP pool account
    user,   \* storage of the user account
    last,   \* the last call: its name, how it ended, the Felt returned, its arguments
    hist,   \* the request ids the calls so far have matched and cancelled
    bal0,   \* usdc_balance at the start of the behaviour
    engine  \* the off-chain matching engine, the value its last call returned
            \* and the provisional deals awaiting their accept_match

vars == <<pool, user, last, hist, bal0, engine>>

(***************************************************************************)
(* Bounds of the model.                                                    *)
(***************************************************************************)
MaxAmount == 2
MaxBalance == 2
MaxOffers == 1
MaxRequests == 2
MaxStaked == 2
MaxEarned == 10
MaxTime == 1
MaxEngineOffers == 3
MaxPending == 2
MaxPrincipal == 120
MaxOfferIds == 2
MaxWrap == 2
MaxDeposited == 3

(***************************************************************************)
(* Program constants.                                                      *)
(***************************************************************************)
PROTOCOL_FEE_BPS == 2000
LP_FEE_BPS == 8000
DEFAULT_ADVANCE_FEE_BPS == 500
DEFAULT_APR_BPS == 1000
ONE_USDC == 1000000

(***************************************************************************)
(* Words and storage maps.                                                 *)
(***************************************************************************)
ZeroWord == <<0, 0, 0, 0>>

Key(id, offset) == <<id, offset, 0, 0>>

EmptyMap == [k \in {} |-> 0]

MapGet(m, k) == IF k \in DOMAIN m THEN m[k] ELSE 0

MapSet(m, k, v) ==
    IF v = 0
    THEN [x \in DOMAIN m \ {k} |-> m[x]]
    ELSE [x \in DOMAIN m \cup {k} |-> IF x = k THEN v ELSE m[x]]

\* What a call leaves behind: the account state, how the call ended
\* ("true", "false", "felt" for a returned Felt, "abort" for a failed assert!)
\* and the Felt it returned (0 when it returned none).
Result(state, ret, val) == [state |-> state, ret |-> ret, val |-> val]

(***************************************************************************)
(* The LP pool contract.                                                   *)
(***************************************************************************)
PoolInit ==
    [usdc_balance  |-> 0,
     active_offers |-> EmptyMap,
     matched_deals |-> EmptyMap,
     settled_deals |-> EmptyMap,
     total_earned  |-> 0,
     offer_counter |-> 0]

deposit_usdc(s, amount) ==
    LET current == s.usdc_balance
        new_balance == current + amount
    IN Result([s EXCEPT !.usdc_balance = new_balance], "felt", new_balance)

\* withdraw_usdc returning true without debiting the balance.
withdraw_usdc_KeepsBalance(s, amount) ==
    LET current == s.usdc_balance
    IN IF current < amount
       THEN Result(s, "false", 0)
       ELSE Result(s, "true", 0)

withdraw_usdc(s, amount) ==
    LET current == s.usdc_balance
    IN IF current < amount
       THEN Result(s, "false", 0)
       ELSE Result([s EXCEPT !.usdc_balance = current - amount], "true", 0)

\* create_offer taking max_amount out of the balance.
create_offer_ReservesBalance(s, max_amount, min_amount, offer_commitment) ==
    LET balance == s.usdc_balance
        offer_id == s.offer_counter
        o1 == MapSet(s.active_offers, Key(offer_id, 0), offer_commitment[1])
        o2 == MapSet(o1, Key(offer_id, 1), max_amount)
        o3 == MapSet(o2, Key(offer_id, 2), min_amount)
        o4 == MapSet(o3, Key(offer_id, 3), 1)
    IN IF ~(balance >= max_amount)
       THEN Result(s, "abort", 0)
       ELSE Result([s EXCEPT !.offer_counter = offer_id + 1,
                             !.usdc_balance = balance - max_amount,
                             !.active_offers = o4], "felt", offer_id)

create_offer(s, max_amount, min_amount, offer_commitment) ==
    LET balance == s.usdc_balance
        offer_id == s.offer_counter
        new_counter == offer_id + 1
        o1 == MapSet(s.active_offers, Key(offer_id, 0), offer_commitment[1])
        o2 == MapSet(o1, Key(offer_id, 1), max_amount)
        o3 == MapSet(o2, Key(offer_id, 2), min_amount)
        o4 == MapSet(o3, Key(offer_id, 3), 1)
    IN IF ~(balance >= max_amount)
       THEN Result(s, "abort", 0)
       ELSE Result([s EXCEPT !.offer_counter = new_counter,
                             !.active_offers = o4], "felt", offer_id)

get_offer(s, offer_id) ==
    <<MapGet(s.active_offers, Key(offer_id, 0)),
      MapGet(s.active_offers, Key(offer_id, 1)),
      MapGet(s.active_offers, Key(offer_id, 2)),
      MapGet(s.active_offers, Key(offer_id, 3)) = 1>>

\* cancel_offer without its check of the active flag.
cancel_offer_Unchecked(s, offer_id) ==
    Result([s EXCEPT !.active_offers = MapSet(@, Key(offer_id, 3), 0)], "true", 0)

\* cancel_offer returning true without clearing the active flag.
cancel_offer_KeepsActive(s, offer_id) ==
    LET is_active == MapGet(s.active_offers, Key(offer_id, 3)) = 1
    IN IF ~is_active
       THEN Result(s, "false", 0)
       ELSE Result(s, "true", 0)

cancel_offer(s, offer_id) ==
    LET active_key == Key(offer_id, 3)
        is_active == MapGet(s.active_offers, active_key) = 1
    IN IF ~is_active
       THEN Result(s, "false", 0)
       ELSE Result([s EXCEPT !.active_offers = MapSet(@, active_key, 0)],
                   "true", 0)

\* accept_match debiting the balance before it has checked the offer's bounds.
accept_match_DebitBeforeBounds(s, offer_id, user_request_commitment, advance_amount, settlement_note_hash, deal_id) ==
    LET is_active == MapGet(s.active_offers, Key(offer_id, 3)) = 1
        max_amount == MapGet(s.active_offers, Key(offer_id, 1))
        min_amount == MapGet(s.active_offers, Key(offer_id, 2))
        balance == s.usdc_balance
        d1 == MapSet(s.matched_deals, Key(deal_id[1], 0), user_request_commitment[1])
        d2 == MapSet(d1, Key(deal_id[1], 1), advance_amount)
        d3 == MapSet(d2, Key(deal_id[1], 2), settlement_note_hash[1])
        d4 == MapSet(d3, Key(deal_id[1], 3), offer_id)
        debited == [s EXCEPT !.usdc_balance = balance - advance_amount]
    IN IF ~is_active
       THEN Result(s, "false", 0)
       ELSE IF balance < advance_amount
       THEN Result(s, "false", 0)
       ELSE IF advance_amount > max_amount \/ advance_amount < min_amount
       THEN Result(debited, "false", 0)
       ELSE Result([debited EXCEPT !.matched_deals = d4], "true", 0)

\* accept_match rejecting an amount only when it is above max_amount and below
\* min_amount at once (&& for ||).
accept_match_BoundsConjoined(s, offer_id, user_request_commitment, advance_amount, settlement_note_hash, deal_id) ==
    LET is_active == MapGet(s.active_offers, Key(offer_id, 3)) = 1
        max_amount == MapGet(s.active_offers, Key(offer_id, 1))
        min_amount == MapGet(s.active_offers, Key(offer_id, 2))
        balance == s.usdc_balance
        d1 == MapSet(s.matched_deals, Key(deal_id[1], 0), user_request_commitment[1])
        d2 == MapSet(d1, Key(deal_id[1], 1), advance_amount)
        d3 == MapSet(d2, Key(deal_id[1], 2), settlement_note_hash[1])
        d4 == MapSet(d3, Key(deal_id[1], 3), offer_id)
    IN IF ~is_active
       THEN Result(s, "false", 0)
       ELSE IF advance_amount > max_amount /\ advance_amount < min_amount
       THEN Result(s, "false", 0)
       ELSE IF balance < advance_amount
       THEN Result(s, "false", 0)
       ELSE Result([s EXCEPT !.usdc_balance = balance - advance_amount,
                             !.matched_deals = d4], "true", 0)

\* accept_match deactivating the offer it has matched.
accept_match_ConsumesOffer(s, offer_id, user_request_commitment, advance_amount, settlement_note_hash, deal_id) ==
    LET is_active == MapGet(s.active_offers, Key(offer_id, 3)) = 1
        max_amount == MapGet(s.active_offers, Key(offer_id, 1))
        min_amount == MapGet(s.active_offers, Key(offer_id, 2))
        balance == s.usdc_balance
        d1 == MapSet(s.matched_deals, Key(deal_id[1], 0), user_request_commitment[1])
        d2 == MapSet(d1, Key(deal_id[1], 1), advance_amount)
        d3 == MapSet(d2, Key(deal_id[1], 2), settlement_note_hash[1])
        d4 == MapSet(d3, Key(deal_id[1], 3), offer_id)
    IN IF ~is_active
       THEN Result(s, "false", 0)
       ELSE IF advance_amount > max_amount \/ advance_amount < min_amount
       THEN Result(s, "false", 0)
       ELSE IF balance < advance_amount
       THEN Result(s, "false", 0)
       ELSE Result([s EXCEPT !.usdc_balance = balance - advance_amount,
                             !.matched_deals = d4,
                             !.active_offers = MapSet(@, Key(offer_id, 3), 0)],
                   "true", 0)

accept_match(s, offer_id, user_request_commitment, advance_amount, settlement_note_hash, deal_id) ==
    LET is_active == MapGet(s.active_offers, Key(offer_id, 3)) = 1
        max_amount == MapGet(s.active_offers, Key(offer_id, 1))
        min_amount == MapGet(s.active_offers, Key(offer_id, 2))
        balance == s.usdc_balance
        d1 == MapSet(s.matched_deals, Key(deal_id[1], 0), user_request_commitment[1])
        d2 == MapSet(d1, Key(deal_id[1], 1), advance_amount)
        d3 == MapSet(d2, Key(deal_id[1], 2), settlement_note_hash[1])
        d4 == MapSet(d3, Key(deal_id[1], 3), offer_id)
    IN IF ~is_active
       THEN Result(s, "false", 0)
       ELSE IF advance_amount > max_amount \/ advance_amount < min_amount
       THEN Result(s, "false", 0)
       ELSE IF balance < advance_amount
       THEN Result(s, "false", 0)
       ELSE Result([s EXCEPT !.usdc_balance = balance - advance_amount,
                             !.matched_deals = d4], "true", 0)

get_deal(s, deal_id) ==
    <<MapGet(s.matched_deals, Key(deal_id, 0)),
      MapGet(s.matched_deals, Key(deal_id, 1)),
      MapGet(s.matched_deals, Key(deal_id, 2)),
      MapGet(s.matched_deals, Key(deal_id, 3))>>

calculate_lp_fee(total_fee) == (total_fee * LP_FEE_BPS) \div 10000

calculate_protocol_fee(total_fee) == (total_fee * PROTOCOL_FEE_BPS) \div 10000

\* record_settlement paying the interest out of the balance.
record_settlement_PaysFromBalance(s, deal_id, staked_assets_received, fee_earned, interest_earned) ==
    LET request == MapGet(s.matched_deals, Key(deal_id, 0))
        lp_fee == (fee_earned * LP_FEE_BPS) \div 10000
        t1 == MapSet(s.settled_deals, Key(deal_id, 0), staked_assets_received)
        t2 == MapSet(t1, Key(deal_id, 1), lp_fee)
        t3 == MapSet(t2, Key(deal_id, 2), interest_earned)
    IN IF request = 0
       THEN Result(s, "false", 0)
       ELSE Result([s EXCEPT !.total_earned = @ + lp_fee + interest_earned,
                             !.usdc_balance = IF @ >= interest_earned
                                              THEN @ - interest_earned ELSE @,
                             !.settled_deals = t3], "true", 0)

\* record_settlement crediting the protocol's share of the fee instead of the LP's.
record_settlement_ProtocolShare(s, deal_id, staked_assets_received, fee_earned, interest_earned) ==
    LET request == MapGet(s.matched_deals, Key(deal_id, 0))
        lp_fee == (fee_earned * PROTOCOL_FEE_BPS) \div 10000
        total_lp_earnings == lp_fee + interest_earned
        current_earned == s.total_earned
        t1 == MapSet(s.settled_deals, Key(deal_id, 0), staked_assets_received)
        t2 == MapSet(t1, Key(deal_id, 1), lp_fee)
        t3 == MapSet(t2, Key(deal_id, 2), interest_earned)
    IN IF request = 0
       THEN Result(s, "false", 0)
       ELSE Result([s EXCEPT !.total_earned = current_earned + total_lp_earnings,
                             !.settled_deals = t3], "true", 0)

record_settlement(s, deal_id, staked_assets_received, fee_earned, interest_earned) ==
    LET request == MapGet(s.matched_deals, Key(deal_id, 0))
        lp_fee == (fee_earned * LP_FEE_BPS) \div 10000
        total_lp_earnings == lp_fee + interest_earned
        current_earned == s.total_earned
        t1 == MapSet(s.settled_deals, Key(deal_id, 0), staked_assets_received)
        t2 == MapSet(t1, Key(deal_id, 1), lp_fee)
        t3 == MapSet(t2, Key(deal_id, 2), interest_earned)
    IN IF request = 0
       THEN Result(s, "false", 0)
       ELSE Result([s EXCEPT !.total_earned = current_earned + total_lp_earnings,
                             !.settled_deals = t3], "true", 0)

is_deal_settled(s, deal_id) == MapGet(s.settled_deals, Key(deal_id, 0)) # 0

(***************************************************************************)
(* The advance note script, run against the pool it reads with get_deal.   *)
(* A failed assert_eq! aborts the note; a note that completes returns      *)
(* nothing ("unit") and writes nothing.                                    *)
(***************************************************************************)
advance_note_run(s, note_inputs) ==
    LET advance_amount == note_inputs[1]
        deal_id == note_inputs[2]
        offer_id == note_inputs[3]
        user_commitment == note_inputs[4]
        deal == get_deal(s, deal_id)
    IN IF deal[1] # user_commitment
       THEN Result(s, "abort", 0)
       ELSE IF deal[2] # advance_amount
       THEN Result(s, "abort", 0)
       ELSE IF deal[4] # offer_id
       THEN Result(s, "abort", 0)
       ELSE Result(s, "unit", 0)

(***************************************************************************)
(* The user account contract.                                              *)
(***************************************************************************)
UserInit ==
    [unlock_requests |-> EmptyMap,
     staked_balance  |-> 0,
     request_counter |-> 0]

deposit_staked_assets(s, amount) ==
    LET current == s.staked_balance
        new_balance == current + amount
    IN Result([s EXCEPT !.staked_balance = new_balance], "felt", new_balance)

lock_staked_assets(s, amount) ==
    LET current == s.staked_balance
    IN IF current < amount
       THEN Result(s, "false", 0)
       ELSE Result([s EXCEPT !.staked_balance = current - amount], "true", 0)

\* create_unlock_request leaving the request counter as it is.
create_unlock_request_KeepsCounter(s, amount, cooldown_end_timestamp, request_commitment, nullifier_secret) ==
    LET locked == lock_staked_assets(s, amount)
        s1 == locked.state
        request_id == s1.request_counter
        commitment_value == request_commitment[1]
    IN IF locked.ret # "true"
       THEN Result(s, "abort", 0)
       ELSE Result([s1 EXCEPT !.unlock_requests =
                                  MapSet(@, Key(request_id, 0), commitment_value)],
                   "felt", request_id)

create_unlock_request(s, amount, cooldown_end_timestamp, request_commitment, nullifier_secret) ==
    LET locked == lock_staked_assets(s, amount)
        s1 == locked.state
        request_id == s1.request_counter
        new_counter == request_id + 1
        commitment_value == request_commitment[1]
    IN IF locked.ret # "true"
       THEN Result(s, "abort", 0)
       ELSE Result([s1 EXCEPT !.request_counter = new_counter,
                              !.unlock_requests =
                                  MapSet(@, Key(request_id, 0), commitment_value)],
                   "felt", request_id)

get_request_commitment(s, request_id) ==
    MapGet(s.unlock_requests, Key(request_id, 0))

mark_request_matched(s, request_id, lp_commitment, settlement_note_hash) ==
    LET stored == MapGet(s.unlock_requests, Key(request_id, 0))
        r1 == MapSet(s.unlock_requests, Key(request_id, 1), lp_commitment[1])
        r2 == MapSet(r1, Key(request_id, 2), settlement_note_hash[1])
    IN IF stored = 0
       THEN Result(s, "false", 0)
       ELSE Result([s EXCEPT !.unlock_requests = r2], "true", 0)

\* cancel_request crediting the balance without clearing the request.
cancel_request_KeepsRequest(s, request_id, amount) ==
    LET request_key == Key(request_id, 0)
        stored == MapGet(s.unlock_requests, request_key)
        lp_match == MapGet(s.unlock_requests, Key(request_id, 1))
        current == s.staked_balance
    IN IF stored = 0
       THEN Result(s, "false", 0)
       ELSE IF lp_match # 0
       THEN Result(s, "false", 0)
       ELSE Result([s EXCEPT !.staked_balance = current + amount], "true", 0)

cancel_request(s, request_id, amount) ==
    LET request_key == Key(request_id, 0)
        stored == MapGet(s.unlock_requests, request_key)
        lp_match == MapGet(s.unlock_requests, Key(request_id, 1))
        current == s.staked_balance
    IN IF stored = 0
       THEN Result(s, "false", 0)
       ELSE IF lp_match # 0
       THEN Result(s, "false", 0)
       ELSE Result([s EXCEPT !.unlock_requests = MapSet(@, request_key, 0),
                             !.staked_balance = current + amount], "true", 0)

\* authorize_settlement rejecting a call made exactly at the cooldown end
\* (<= for <).
authorize_settlement_AfterCooldownOnly(s, request_id, amount, current_timestamp, cooldown_end_timestamp) ==
    LET lp_match == MapGet(s.unlock_requests, Key(request_id, 1))
    IN IF current_timestamp <= cooldown_end_timestamp
       THEN Result(s, "false", 0)
       ELSE IF lp_match = 0
       THEN Result(s, "false", 0)
       ELSE Result([s EXCEPT !.unlock_requests = MapSet(@, Key(request_id, 3), 1)],
                   "true", 0)

authorize_settlement(s, request_id, amount, current_timestamp, cooldown_end_timestamp) ==
    LET lp_match == MapGet(s.unlock_requests, Key(request_id, 1))
    IN IF current_timestamp < cooldown_end_timestamp
       THEN Result(s, "false", 0)
       ELSE IF lp_match = 0
       THEN Result(s, "false", 0)
       ELSE Result([s EXCEPT !.unlock_requests = MapSet(@, Key(request_id, 3), 1)],
                   "true", 0)

(***************************************************************************)
(* The settlement note script, run against the user account and the pool.  *)
(* note_inputs is a Word: request_id, amount, cooldown_end_timestamp and   *)
(* deal_id.  A failed assert! aborts the transaction, which then leaves    *)
(* both accounts as they were; a note that completes returns nothing.      *)
(***************************************************************************)
\* The placeholder of the script: the timestamp is not read from the block.
get_current_timestamp == 0

calculate_fee(amount) == (amount * 500) \div 10000

\* calculate_interest for a cooldown of a year.
calculate_interest_Yearly(amount, cooldown_end) ==
    LET apr_bps == 1000
        days == 365
    IN (amount * apr_bps * days) \div (10000 * 365)

calculate_interest(amount, cooldown_end) ==
    LET apr_bps == 1000
        days == 14
    IN (amount * apr_bps * days) \div (10000 * 365)

settlement_note_run(u, p, note_inputs) ==
    LET request_id == note_inputs[1]
        amount == note_inputs[2]
        cooldown_end_timestamp == note_inputs[3]
        deal_id == note_inputs[4]
        current_timestamp == get_current_timestamp
        authorized == authorize_settlement(u, request_id, amount, current_timestamp,
                                           cooldown_end_timestamp)
        fee_amount == calculate_fee(amount)
        interest_amount == calculate_interest(amount, cooldown_end_timestamp)
        settled == record_settlement(p, deal_id, amount, fee_amount, interest_amount)
        unchanged == [user |-> u, pool |-> p]
    IN IF ~(current_timestamp >= cooldown_end_timestamp)
       THEN Result(unchanged, "abort", 0)
       ELSE IF authorized.ret # "true"
       THEN Result(unchanged, "abort", 0)
       ELSE IF settled.ret # "true"
       THEN Result(unchanged, "abort", 0)
       ELSE Result([user |-> authorized.state, pool |-> settled.state], "unit", 0)

(***************************************************************************)
(* The integration helpers: requests, offers, deals, the off-chain         *)
(* matching engine and the pricing calculator.  An Option is a sequence of *)
(* length 0 (None) or 1 (Some).  The account ids, the same mock id in      *)
(* every use, are left out of the records.                                 *)
(***************************************************************************)
None == <<>>

Some(x) == <<x>>

unwrap_or(opt, default) == IF opt = None THEN default ELSE opt[1]

UnlockRequest_compute_commitment(amount, cooldown_end, nullifier_felt) ==
    <<amount, cooldown_end, nullifier_felt, 0>>

UnlockRequest_new(request_id, amount, cooldown_end_timestamp, nullifier_felt) ==
    [request_id |-> request_id,
     amount |-> amount,
     cooldown_end_timestamp |-> cooldown_end_timestamp,
     commitment |-> UnlockRequest_compute_commitment(amount, cooldown_end_timestamp,
                                                     nullifier_felt)]

UnlockRequest_net_advance(request) ==
    LET fee == (request.amount * DEFAULT_ADVANCE_FEE_BPS) \div 10000
    IN request.amount - fee

UnlockRequest_advance_fee(request) ==
    (request.amount * DEFAULT_ADVANCE_FEE_BPS) \div 10000

UnlockRequest_apr_interest(request, cooldown_days) ==
    (request.amount * DEFAULT_APR_BPS * cooldown_days) \div (10000 * 365)

LpOffer_compute_commitment(offer_id, max_amount, min_amount) ==
    <<offer_id, 0, max_amount, min_amount>>

LpOffer_new(offer_id, max_amount, min_amount, custom_apr_bps) ==
    [offer_id |-> offer_id,
     max_amount |-> max_amount,
     min_amount |-> min_amount,
     custom_apr_bps |-> custom_apr_bps,
     commitment |-> LpOffer_compute_commitment(offer_id, max_amount, min_amount),
     is_active |-> TRUE]

can_match(offer, request_amount) ==
    /\ offer.is_active
    /\ request_amount >= offer.min_amount
    /\ request_amount <= offer.max_amount

MatchedDeal_new(request, offer, deal_id) ==
    [deal_id |-> deal_id,
     request |-> request,
     offer |-> offer,
     advance_amount |-> UnlockRequest_net_advance(request),
     settlement_note_hash |-> ZeroWord,
     advance_note_hash |-> ZeroWord,
     matched_at |-> 0,
     is_settled |-> FALSE]

\* The pair (lp_fee, interest).
MatchedDeal_lp_earnings(deal, cooldown_days) ==
    LET fee == UnlockRequest_advance_fee(deal.request)
        interest == UnlockRequest_apr_interest(deal.request, cooldown_days)
        lp_fee == (fee * LP_FEE_BPS) \div 10000
    IN <<lp_fee, interest>>

\* The key find_matches sorts by.
effective_apr(offer) == unwrap_or(offer.custom_apr_bps, DEFAULT_APR_BPS)

\* sort_by is a stable sort: an element goes behind the elements that compare
\* less than or equal to it and were in front of it.
insert_by_apr(sorted, x) ==
    LET k == Cardinality({i \in 1..Len(sorted) :
                              effective_apr(sorted[i]) <= effective_apr(x)})
    IN SubSeq(sorted, 1, k) \o <<x>> \o SubSeq(sorted, k + 1, Len(sorted))

RECURSIVE sort_by_apr(_)
sort_by_apr(matches) ==
    IF matches = <<>>
    THEN <<>>
    ELSE insert_by_apr(sort_by_apr(SubSeq(matches, 1, Len(matches) - 1)),
                       matches[Len(matches)])

\* find_matches leaving out an offer whose max_amount is the request's amount
\* (< for <=).
find_matches_BelowMax(offers, request) ==
    LET below(offer) == /\ offer.is_active
                        /\ request.amount >= offer.min_amount
                        /\ request.amount < offer.max_amount
    IN sort_by_apr(SelectSeq(offers, below))

find_matches(offers, request) ==
    LET matching(offer) == can_match(offer, request.amount)
        matches == SelectSeq(offers, matching)
    IN sort_by_apr(matches)

\* match_request taking the last match instead of the first.
match_request_LastMatch(offers, request, deal_id) ==
    LET matches == find_matches(offers, request)
    IN IF matches # <<>>
       THEN Some(MatchedDeal_new(request, matches[Len(matches)], deal_id))
       ELSE None

match_request(offers, request, deal_id) ==
    LET matches == find_matches(offers, request)
    IN IF matches # <<>>
       THEN Some(MatchedDeal_new(request, matches[1], deal_id))
       ELSE None

advance_fee(principal) == (principal * DEFAULT_ADVANCE_FEE_BPS) \div 10000

\* net_advance taking the fee twice.
net_advance_DoubleFee(principal) == principal - 2 * advance_fee(principal)

net_advance(principal) == principal - advance_fee(principal)

lp_fee_share(total_fee) == (total_fee * LP_FEE_BPS) \div 10000

protocol_fee_share(total_fee) == (total_fee * PROTOCOL_FEE_BPS) \div 10000

(***************************************************************************)
(* The pricing calculator on 64-bit operands.  A u64 is held as its 8      *)
(* bytes, least significant first, so that a product that does not fit is  *)
(* seen: with overflow checks (the dev and test profiles) the              *)
(* multiplication panics, without them (the release profile) it keeps the  *)
(* low 64 bits.  A number of any size is a byte sequence of any length.    *)
(***************************************************************************)
RECURSIVE to_bytes(_, _)
to_bytes(n, len) ==
    IF len = 0 THEN <<>> ELSE <<n % 256>> \o to_bytes(n \div 256, len - 1)

u64(n) == to_bytes(n, 8)

RECURSIVE mul_bytes(_, _, _)
\* bytes * k + carry, exactly.
mul_bytes(bytes, k, carry) ==
    IF bytes = <<>>
    THEN IF carry = 0 THEN <<>> ELSE <<carry % 256>> \o mul_bytes(<<>>, k, carry \div 256)
    ELSE LET v == Head(bytes) * k + carry
         IN <<v % 256>> \o mul_bytes(Tail(bytes), k, v \div 256)

RECURSIVE div_bytes(_, _, _)
\* The quotient of (rem, bytes) by d, most significant byte handled first.
div_bytes(bytes, d, rem) ==
    IF bytes = <<>>
    THEN <<>>
    ELSE LET v == rem * 256 + bytes[Len(bytes)]
         IN div_bytes(SubSeq(bytes, 1, Len(bytes) - 1), d, v % d) \o <<v \div d>>

RECURSIVE sub_bytes(_, _, _)
\* a - b - borrow for a >= b of equal length.
sub_bytes(a, b, borrow) ==
    IF a = <<>>
    THEN <<>>
    ELSE LET v == Head(a) - Head(b) - borrow
         IN <<v % 256>> \o sub_bytes(Tail(a), Tail(b), IF v < 0 THEN 1 ELSE 0)

RECURSIVE trim(_)
\* A number without its leading zero bytes.
trim(bytes) ==
    IF bytes # <<>> /\ bytes[Len(bytes)] = 0
    THEN trim(SubSeq(bytes, 1, Len(bytes) - 1))
    ELSE bytes

\* The low 64 bits of a number.
low64(bytes) == [i \in 1..8 |-> IF i <= Len(bytes) THEN bytes[i] ELSE 0]

fits64(bytes) == Len(trim(bytes)) <= 8

\* a * k in u64 arithmetic: a panic when the product does not fit and the
\* build checks overflow, the low 64 bits otherwise.
u64_mul(a, k, checks) ==
    LET product == mul_bytes(a, k, 0)
    IN IF ~fits64(product) /\ checks
       THEN [ret |-> "panic", val |-> <<>>]
       ELSE [ret |-> "felt", val |-> low64(product)]

u64_div(a, d) == low64(div_bytes(a, d, 0))

advance_fee_u64(principal, checks) ==
    LET product == u64_mul(principal, DEFAULT_ADVANCE_FEE_BPS, checks)
    IN IF product.ret = "panic" THEN product
       ELSE [ret |-> "felt", val |-> u64_div(product.val, 10000)]

net_advance_u64(principal, checks) ==
    LET fee == advance_fee_u64(principal, checks)
    IN IF fee.ret = "panic" THEN fee
       ELSE [ret |-> "felt", val |-> sub_bytes(principal, fee.val, 0)]

apr_interest_u64(principal, days, checks) ==
    LET p1 == u64_mul(principal, DEFAULT_APR_BPS, checks)
        p2 == u64_mul(p1.val, days, checks)
    IN IF p1.ret = "panic" THEN p1
       ELSE IF p2.ret = "panic" THEN p2
       ELSE [ret |-> "felt", val |-> u64_div(p2.val, 10000 * 365)]

lp_fee_share_u64(total_fee, checks) ==
    LET product == u64_mul(total_fee, LP_FEE_BPS, checks)
    IN IF product.ret = "panic" THEN product
       ELSE [ret |-> "felt", val |-> u64_div(product.val, 10000)]

protocol_fee_share_u64(total_fee, checks) ==
    LET product == u64_mul(total_fee, PROTOCOL_FEE_BPS, checks)
    IN IF product.ret = "panic" THEN product
       ELSE [ret |-> "felt", val |-> u64_div(product.val, 10000)]

\* n USDC in raw units (6 decimals), for n * ONE_USDC below 2^64.
usdc_to_raw(display) == low64(mul_bytes(u64(display), ONE_USDC, 0))

(***************************************************************************)
(* Felt arithmetic at its width.  A Felt is an element of the field of     *)
(* order 2^64 - 2^32 + 1, here its 8 bytes, least significant first; the   *)
(* sum of two Felts is reduced modulo the order of the field.              *)
(***************************************************************************)
\* 2^64 - 2^32 + 1 = 0xFFFFFFFF00000001.
FieldModulus == <<1, 0, 0, 0, 255, 255, 255, 255>>

RECURSIVE add_bytes(_, _, _)
\* a + b + carry for a and b of equal length, one byte longer than they are.
add_bytes(a, b, carry) ==
    IF a = <<>>
    THEN <<carry>>
    ELSE LET v == Head(a) + Head(b) + carry
         IN <<v % 256>> \o add_bytes(Tail(a), Tail(b), v \div 256)

RECURSIVE geq_bytes(_, _)
\* a >= b for a and b of equal length.
geq_bytes(a, b) ==
    IF a = <<>>
    THEN TRUE
    ELSE LET n == Len(a)
         IN IF a[n] # b[n]
            THEN a[n] > b[n]
            ELSE geq_bytes(SubSeq(a, 1, n - 1), SubSeq(b, 1, n - 1))

felt_add(a, b) ==
    LET sum == add_bytes(a, b, 0)
        modulus == FieldModulus \o <<0>>
    IN IF geq_bytes(sum, modulus)
       THEN low64(sub_bytes(sum, modulus, 0))
       ELSE low64(sum)

\* StorageMap::set of a Felt kept as its bytes: the map keeps no key for the
\* Felt 0.
MapSetFelt(m, k, a) ==
    IF a = u64(0)
    THEN [x \in DOMAIN m \ {k} |-> m[x]]
    ELSE [x \in DOMAIN m \cup {k} |-> IF x = k THEN a ELSE m[x]]

\* record_settlement with fee_earned, interest_earned and total_earned at the
\* width of a Felt.
record_settlement_felt(s, deal_id, staked_assets_received, fee_earned, interest_earned, checks) ==
    LET request == MapGet(s.matched_deals, Key(deal_id, 0))
        product == u64_mul(fee_earned, LP_FEE_BPS, checks)
        lp_fee == u64_div(product.val, 10000)
        total_lp_earnings == felt_add(lp_fee, interest_earned)
        current_earned == s.total_earned
        t1 == MapSet(s.settled_deals, Key(deal_id, 0), staked_assets_received)
        t2 == MapSetFelt(t1, Key(deal_id, 1), lp_fee)
        t3 == MapSetFelt(t2, Key(deal_id, 2), interest_earned)
    IN IF request = 0
       THEN Result(s, "false", 0)
       ELSE IF product.ret = "panic"
       THEN Result(s, "panic", 0)
       ELSE Result([s EXCEPT !.total_earned = felt_add(current_earned, total_lp_earnings),
                             !.settled_deals = t3], "true", 0)

\* The inputs of a settlement note, in the order the script reads them.
settlement_note_config(request_id, amount, cooldown_end, deal_id) ==
    <<request_id, amount, cooldown_end, deal_id>>

EngineInit ==
    [offers  |-> <<>>,   \* MatchingEngine.offers
     out     |-> <<>>,   \* what the last call on the engine returned
     pending |-> <<>>]   \* deals match_request returned, not yet committed

(***************************************************************************)
(* Inputs of the calls.                                                    *)
(***************************************************************************)
CommitWords == {ZeroWord, <<1, 0, 0, 0>>, <<2, 0, 0, 0>>}

DealWords == {<<1, 0, 0, 0>>, <<2, 0, 0, 0>>}

\* The inputs the calls of a specification draw from.  last keeps the arguments
\* of a call that returned true; args says whether it keeps those of every call.
\* track says whether hist keeps the amounts deposited and locked and the deals
\* recorded; maxoffers is the number of offers create_offer is called for.
\* ledger says whether hist keeps the USDC deposited, withdrawn and advanced.
Wide ==
    [amounts   |-> 0..MaxAmount,
     bounds    |-> {1, 2},
     offers    |-> 0..MaxOffers,
     commits   |-> {ZeroWord, <<1, 0, 0, 0>>},
     ocommits  |-> {<<1, 0, 0, 0>>},
     hashes    |-> {ZeroWord},
     deals     |-> DealWords,
     staked    |-> {0, 1},
     fees      |-> {5},
     interests |-> {1},
     requests  |-> 0..MaxRequests,
     times     |-> 0..MaxTime,
     released  |-> {1},
     args      |-> FALSE,
     track     |-> FALSE,
     maxoffers |-> MaxOffers,
     ledger    |-> FALSE]

Single ==
    [amounts   |-> 0..MaxAmount,
     bounds    |-> 1..MaxAmount,
     offers    |-> 0..MaxOffers,
     commits   |-> CommitWords,
     ocommits  |-> {<<1, 0, 0, 0>>},
     hashes    |-> {ZeroWord},
     deals     |-> DealWords,
     staked    |-> 0..MaxAmount,
     fees      |-> {0, 5, 7},
     interests |-> {0, 1},
     requests  |-> 0..MaxRequests,
     times     |-> 0..MaxTime,
     released  |-> {1},
     args      |-> TRUE,
     track     |-> FALSE,
     maxoffers |-> MaxOffers,
     ledger    |-> FALSE]

Narrow ==
    [amounts   |-> {1},
     bounds    |-> {1},
     offers    |-> {0},
     commits   |-> {<<1, 0, 0, 0>>},
     ocommits  |-> {<<1, 0, 0, 0>>},
     hashes    |-> {ZeroWord},
     deals     |-> {<<1, 0, 0, 0>>},
     staked    |-> {1},
     fees      |-> {5},
     interests |-> {1},
     requests  |-> {0},
     times     |-> 0..MaxTime,
     released  |-> {1},
     args      |-> TRUE,
     track     |-> FALSE,
     maxoffers |-> MaxOffers,
     ledger    |-> FALSE]

\* The pool of the racing commits: one offer, with bounds at which the 5% fee
\* is not truncated to 0.
Race == [Wide EXCEPT !.bounds = {20, 40}, !.offers = {0}, !.args = TRUE]

\* The balances the pool of the racing commits is constructed with.
RaceBalances == {39, 40}

\* (min_amount, max_amount) of the offers given to the engine.
OfferBounds == {<<1, 20>>, <<20, 40>>}

OfferAprs == {None, Some(900), Some(1000)}

\* Request amounts: at, next to and away from the bounds of the offers.
Principals == {0, 1, 19, 20, 21, 40, 41}

\* The request amounts the calls on the engine are made with.
EngineAmounts == {1, 20, 41}

\* The request amounts the provisional matches are made with.
RaceAmounts == {20, 21, 40}

\* The u64 operands of the pricing calculator: small amounts, the amounts of
\* the tests, and amounts whose products with the basis points pass 2^64.
Operands ==
    {u64(n) : n \in {0, 1, 19, 20, 39, 7300}}
        \cup {usdc_to_raw(3000), usdc_to_raw(60000000), [i \in 1..8 |-> 255]}

\* Days of cooldown.
CooldownDays == {0, 1, 14, 365}

\* The pool's offers: up to MaxOfferIds offers, with bounds of 0 and above, and
\* cancel_offer on the ids created and on one never created.
Offers ==
    [Wide EXCEPT !.bounds = {0, 1, 2}, !.offers = 0..MaxOfferIds,
                 !.maxoffers = MaxOfferIds]

\* Every call on the pool, for one user commitment and one deal id.
Frame ==
    [Wide EXCEPT !.commits = {<<1, 0, 0, 0>>}, !.deals = {<<1, 0, 0, 0>>},
                 !.staked = {1}]

\* The pool with the deals accept_match has recorded kept in hist.
Note == [Wide EXCEPT !.track = TRUE]

\* The user account with the deposits and the locked amounts kept in hist.
Stake == [Wide EXCEPT !.track = TRUE]

\* The fees and the interests record_settlement is called with at the width
\* of a Felt: none, small ones, and the largest Felt.
FeltFees == {u64(0), u64(2)}

FeltInterests == {u64(0), u64(1), sub_bytes(FieldModulus, u64(1), 0)}

\* A Felt of at most MaxWrap.
SmallFelt(a) == a[1] <= MaxWrap /\ \A i \in 2..8 : a[i] = 0

\* The values total_earned is followed through: within MaxWrap of 0 or of
\* the largest Felt.
EarnedInRange(a) ==
    SmallFelt(a) \/ SmallFelt(sub_bytes(sub_bytes(FieldModulus, u64(1), 0), a, 0))

\* Every call on the pool, for two user commitments and for deal ids that are
\* different Words with the same first element.
SharedIds ==
    [Frame EXCEPT !.commits = {<<1, 0, 0, 0>>, <<2, 0, 0, 0>>},
                  !.deals = {<<1, 0, 0, 0>>, <<1, 1, 0, 0>>}]

\* Every call on the user account, for two commitments, neither of which has
\* 0 as its first element.
Rematch == [Wide EXCEPT !.commits = {<<1, 0, 0, 0>>, <<2, 0, 0, 0>>}]

\* Every call on the pool, for up to MaxOfferIds offers, with the offers
\* cancelled kept in hist.
Cancel ==
    [Frame EXCEPT !.offers = 0..MaxOfferIds, !.maxoffers = MaxOfferIds,
                  !.amounts = {1, 2}, !.bounds = {1},
                  !.args = TRUE, !.track = TRUE]

\* Every call on the pool, with the USDC deposited, withdrawn and advanced
\* kept in hist.
Ledger == [Frame EXCEPT !.ledger = TRUE]

\* The request amounts the earnings are compared for: amounts whose fee, LP
\* share of the fee and interest are 0, are truncated, and are not.
EarningAmounts == {0, 1, 20, 39, 40, 261, 7300}

\* The balances the two accounts are constructed with, and the upper bound
\* of the pool's offers.
EarningBalance == 10000

\* One request, the second offer of the pool and one deal, with an LP
\* commitment whose first element is the offer's id.
Earn ==
    [Narrow EXCEPT !.commits = {LpOffer_compute_commitment(1, EarningBalance, 1)},
                   !.track = TRUE]

\* The counters: up to MaxOfferIds offers and MaxRequests requests.
Counters == [Narrow EXCEPT !.maxoffers = MaxOfferIds, !.times = {0}, !.args = FALSE]

\* Both accounts and the settlement notes: one request, one offer, one deal,
\* and notes for an amount of 0 and of 1.
Settle == [Narrow EXCEPT !.staked = {0, 1}]

Call(P, op, r, args) ==
    [op |-> op, ret |-> r.ret, val |-> r.val,
     args |-> IF P.args \/ r.ret = "true" THEN args ELSE <<>>]

HistInit ==
    [matched   |-> {},   \* request ids mark_request_matched returned true for
     cancelled |-> {},   \* request ids cancel_request returned true for
     deals     |-> {},   \* deal ids accept_match returned true for
     deposited |-> 0,    \* sum of the amounts deposit_staked_assets was given
     locked    |-> <<>>, \* amount create_unlock_request locked, by request id + 1
     offers_cancelled |-> {},  \* offer ids cancel_offer returned true for
     usdc_deposited |-> 0,     \* sum of the amounts deposit_usdc was given
     usdc_withdrawn |-> 0,     \* sum of the amounts withdraw_usdc returned true for
     usdc_advanced  |-> 0,     \* sum of the advance_amounts accept_match returned true for
     note      |-> <<>>, \* the inputs of the settlement note published, not yet consumed
     now       |-> 0]    \* the time of the scheduler that executes the notes

Init ==
    /\ pool = PoolInit
    /\ user = UserInit
    /\ last = [op |-> "init", ret |-> "felt", val |-> 0, args |-> <<>>]
    /\ hist = HistInit
    /\ bal0 = 0
    /\ engine = EngineInit

(***************************************************************************)
(* Calls on the LP pool.                                                   *)
(***************************************************************************)
DepositUsdc(P) ==
    \E amount \in P.amounts :
        /\ pool.usdc_balance + amount <= MaxBalance
        /\ P.ledger => hist.usdc_deposited + amount <= MaxDeposited
        /\ LET r == deposit_usdc(pool, amount)
           IN /\ pool' = r.state
              /\ last' = Call(P, "deposit_usdc", r, <<amount>>)
              /\ hist' = IF P.ledger
                         THEN [hist EXCEPT !.usdc_deposited = @ + amount]
                         ELSE hist
        /\ UNCHANGED <<user, bal0, engine>>

WithdrawUsdc(P) ==
    \E amount \in P.amounts :
        /\ LET r == withdraw_usdc(pool, amount)
           IN /\ pool' = r.state
              /\ last' = Call(P, "withdraw_usdc", r, <<amount>>)
              /\ hist' = IF P.ledger /\ r.ret = "true"
                         THEN [hist EXCEPT !.usdc_withdrawn = @ + amount]
                         ELSE hist
        /\ UNCHANGED <<user, bal0, engine>>

CreateOffer(P) ==
    \E max_amount \in P.bounds, min_amount \in P.bounds, c \in P.ocommits :
        /\ pool.offer_counter < P.maxoffers
        /\ LET r == create_offer(pool, max_amount, min_amount, c)
           IN /\ pool' = r.state
              /\ last' = Call(P, "create_offer", r, <<max_amount, min_amount, c>>)
        /\ UNCHANGED <<user, hist, bal0, engine>>

CancelOffer(P) ==
    \E offer_id \in P.offers :
        /\ LET r == cancel_offer(pool, offer_id)
           IN /\ pool' = r.state
              /\ last' = Call(P, "cancel_offer", r, <<offer_id>>)
              /\ hist' = IF P.track /\ r.ret = "true"
                         THEN [hist EXCEPT !.offers_cancelled = @ \cup {offer_id}]
                         ELSE hist
        /\ UNCHANGED <<user, bal0, engine>>

AcceptMatch(P) ==
    \E offer_id \in P.offers, c \in P.commits, advance_amount \in P.amounts,
       h \in P.hashes, deal_id \in P.deals :
        /\ LET r == accept_match(pool, offer_id, c, advance_amount, h, deal_id)
           IN /\ pool' = r.state
              /\ last' = Call(P, "accept_match", r,
                              <<offer_id, c, advance_amount, h, deal_id>>)
              /\ hist' = IF P.track /\ r.ret = "true"
                         THEN [hist EXCEPT !.deals = @ \cup {deal_id[1]}]
                         ELSE IF P.ledger /\ r.ret = "true"
                         THEN [hist EXCEPT !.usdc_advanced = @ + advance_amount]
                         ELSE hist
        /\ UNCHANGED <<user, bal0, engine>>

RecordSettlement(P) ==
    \E deal_id \in P.deals, staked \in P.staked, fee \in P.fees,
       interest \in P.interests :
        /\ pool.total_earned + calculate_lp_fee(fee) + interest <= MaxEarned
        /\ LET r == record_settlement(pool, deal_id[1], staked, fee, interest)
           IN /\ pool' = r.state
              /\ last' = Call(P, "record_settlement", r,
                              <<deal_id[1], staked, fee, interest>>)
        /\ UNCHANGED <<user, hist, bal0, engine>>

MatchNext(P) ==
    \/ DepositUsdc(P)
    \/ WithdrawUsdc(P)
    \/ CreateOffer(P)
    \/ CancelOffer(P)
    \/ AcceptMatch(P)

PoolNext(P) ==
    \/ MatchNext(P)
    \/ RecordSettlement(P)

\* The calls that read or write the offers and the balance they are checked
\* against.
OfferNext(P) ==
    \/ DepositUsdc(P)
    \/ WithdrawUsdc(P)
    \/ CreateOffer(P)
    \/ CancelOffer(P)

\* An advance note is consumed.
AdvanceNote(P) ==
    \E advance_amount \in P.amounts, deal_id \in P.deals, offer_id \in P.offers,
       c \in P.commits :
        /\ LET r == advance_note_run(pool, <<advance_amount, deal_id[1], offer_id, c[1]>>)
           IN /\ pool' = r.state
              /\ last' = [op |-> "advance_note", ret |-> r.ret, val |-> r.val,
                          args |-> IF r.ret = "unit"
                                   THEN <<advance_amount, deal_id[1], offer_id, c[1]>>
                                   ELSE <<>>]
        /\ UNCHANGED <<user, hist, bal0, engine>>

(***************************************************************************)
(* Calls on the user account.                                              *)
(***************************************************************************)
DepositStakedAssets(P) ==
    \E amount \in P.amounts :
        /\ user.staked_balance + amount <= MaxStaked
        /\ LET r == deposit_staked_assets(user, amount)
           IN /\ user' = r.state
              /\ last' = Call(P, "deposit_staked_assets", r, <<amount>>)
              /\ hist' = IF P.track
                         THEN [hist EXCEPT !.deposited = @ + amount]
                         ELSE hist
        /\ UNCHANGED <<pool, bal0, engine>>

CreateUnlockRequest(P) ==
    \E amount \in P.amounts, cooldown_end \in P.times, c \in P.commits :
        /\ user.request_counter < MaxRequests
        /\ LET r == create_unlock_request(user, amount, cooldown_end, c, 0)
           IN /\ user' = r.state
              /\ last' = Call(P, "create_unlock_request", r,
                              <<amount, cooldown_end, c, 0>>)
              /\ hist' = IF P.track /\ r.ret = "felt"
                         THEN [hist EXCEPT !.locked = Append(@, amount)]
                         ELSE hist
        /\ UNCHANGED <<pool, bal0, engine>>

MarkRequestMatched(P) ==
    \E request_id \in P.requests, lp_commitment \in P.commits, h \in P.hashes :
        /\ LET r == mark_request_matched(user, request_id, lp_commitment, h)
           IN /\ user' = r.state
              /\ last' = Call(P, "mark_request_matched", r,
                              <<request_id, lp_commitment, h>>)
              /\ hist' = IF r.ret = "true"
                         THEN [hist EXCEPT !.matched = @ \cup {request_id}]
                         ELSE hist
        /\ UNCHANGED <<pool, bal0, engine>>

CancelRequest(P) ==
    \E request_id \in P.requests, amount \in P.amounts :
        /\ LET r == cancel_request(user, request_id, amount)
           IN /\ r.state.staked_balance <= MaxStaked
              /\ user' = r.state
              /\ last' = Call(P, "cancel_request", r, <<request_id, amount>>)
              /\ hist' = IF r.ret = "true"
                         THEN [hist EXCEPT !.cancelled = @ \cup {request_id}]
                         ELSE hist
        /\ UNCHANGED <<pool, bal0, engine>>

AuthorizeSettlement(P) ==
    \E request_id \in P.requests, amount \in P.released,
       current_timestamp \in P.times, cooldown_end \in P.times :
        /\ LET r == authorize_settlement(user, request_id, amount,
                                         current_timestamp, cooldown_end)
           IN /\ user' = r.state
              /\ last' = Call(P, "authorize_settlement", r,
                              <<request_id, amount, current_timestamp, cooldown_end>>)
        /\ UNCHANGED <<pool, hist, bal0, engine>>

UserNext(P) ==
    \/ DepositStakedAssets(P)
    \/ CreateUnlockRequest(P)
    \/ MarkRequestMatched(P)
    \/ CancelRequest(P)
    \/ AuthorizeSettlement(P)

\* record_settlement on a pool whose total_earned is kept at the width of a
\* Felt, in a build with overflow checks and in one without.
RecordSettlementFelt(P) ==
    \E deal_id \in P.deals, staked \in P.staked, fee \in FeltFees,
       interest \in FeltInterests, checks \in BOOLEAN :
        /\ LET r == record_settlement_felt(pool, deal_id[1], staked, fee, interest,
                                           checks)
           IN /\ EarnedInRange(r.state.total_earned)
              /\ pool' = r.state
              /\ last' = Call(P, "record_settlement", r,
                              <<deal_id[1], staked, fee, interest>>)
        /\ UNCHANGED <<user, hist, bal0, engine>>

\* The calls that write a counter or total_earned, and those they depend on.
CounterNext(P) ==
    \/ DepositUsdc(P)
    \/ CreateOffer(P)
    \/ AcceptMatch(P)
    \/ RecordSettlementFelt(P)
    \/ DepositStakedAssets(P)
    \/ CreateUnlockRequest(P)

\* A settlement note is consumed.
SettlementNote(P) ==
    \E request_id \in P.requests, amount \in P.staked, cooldown_end \in P.times,
       deal_id \in P.deals :
        /\ pool.total_earned + calculate_lp_fee(calculate_fee(amount))
               + calculate_interest(amount, cooldown_end) <= MaxEarned
        /\ LET r == settlement_note_run(user, pool,
                                        <<request_id, amount, cooldown_end, deal_id[1]>>)
           IN /\ user' = r.state.user
              /\ pool' = r.state.pool
              /\ last' = [op |-> "settlement_note", ret |-> r.ret, val |-> r.val,
                          args |-> <<request_id, amount, cooldown_end, deal_id[1]>>]
        /\ UNCHANGED <<hist, bal0, engine>>

\* The settlement note of a request and its deal is created and published,
\* with the cooldown end of the request among its inputs.
PublishSettlementNote(P) ==
    \E request_id \in P.requests, amount \in P.staked, cooldown_end \in P.times,
       deal_id \in P.deals :
        /\ hist.note = <<>>
        /\ hist' = [hist EXCEPT !.note = settlement_note_config(request_id, amount,
                                                               cooldown_end, deal_id[1])]
        /\ UNCHANGED <<pool, user, last, bal0, engine>>

\* Time passes.
Tick ==
    /\ hist.now < MaxTime
    /\ hist' = [hist EXCEPT !.now = @ + 1]
    /\ UNCHANGED <<pool, user, last, bal0, engine>>

\* The scheduler executes the published settlement note: a note that
\* completes is consumed, a note that aborts stays to be executed again.
ExecuteSettlementNote ==
    /\ hist.note # <<>>
    /\ LET r == settlement_note_run(user, pool, hist.note)
       IN /\ user' = r.state.user
          /\ pool' = r.state.pool
          /\ last' = [op |-> "settlement_note", ret |-> r.ret, val |-> r.val,
                      args |-> hist.note]
          /\ hist' = IF r.ret = "unit" THEN [hist EXCEPT !.note = <<>>] ELSE hist
    /\ UNCHANGED <<bal0, engine>>

\* The steps from the deposits to the settlement of a request and its deal.
ScheduleNext(P) ==
    \/ DepositUsdc(P)
    \/ CreateOffer(P)
    \/ AcceptMatch(P)
    \/ DepositStakedAssets(P)
    \/ CreateUnlockRequest(P)
    \/ MarkRequestMatched(P)
    \/ PublishSettlementNote(P)
    \/ Tick
    \/ ExecuteSettlementNote

(***************************************************************************)
(* Calls on the matching engine.                                           *)
(***************************************************************************)
\* add_offer of an offer made by LpOffer::new, whose public is_active field
\* may have been cleared; offers are numbered in the order they are added.
AddOffer ==
    \E b \in OfferBounds, apr \in OfferAprs, active \in BOOLEAN :
        /\ Len(engine.offers) < MaxEngineOffers
        /\ LET offer == [LpOffer_new(Len(engine.offers) + 1, b[2], b[1], apr)
                             EXCEPT !.is_active = active]
           IN engine' = [engine EXCEPT !.offers = Append(@, offer), !.out = <<>>]
        /\ last' = [op |-> "add_offer", ret |-> "unit", val |-> 0, args |-> <<>>]
        /\ UNCHANGED <<pool, user, hist, bal0>>

FindMatches ==
    \E amount \in EngineAmounts :
        /\ LET matches == find_matches(engine.offers, UnlockRequest_new(1, amount, 0, 0))
           IN /\ engine' = [engine EXCEPT !.out = matches]
              /\ last' = [op |-> "find_matches", ret |-> "felt",
                          val |-> Len(matches), args |-> <<amount>>]
        /\ UNCHANGED <<pool, user, hist, bal0>>

MatchRequest ==
    \E amount \in EngineAmounts :
        /\ LET deal == match_request(engine.offers, UnlockRequest_new(1, amount, 0, 0),
                                     <<1, 0, 0, 0>>)
           IN /\ engine' = [engine EXCEPT !.out = deal]
              /\ last' = [op |-> "match_request", ret |-> "felt",
                          val |-> Len(deal), args |-> <<amount>>]
        /\ UNCHANGED <<pool, user, hist, bal0>>

EngineNext ==
    \/ AddOffer
    \/ FindMatches
    \/ MatchRequest

(***************************************************************************)
(* Provisional matches and their commits on the pool.                      *)
(***************************************************************************)
\* The engine is given the offers as the pool holds them now.
SnapshotOffers ==
    /\ engine' = [engine EXCEPT
                     !.offers = [i \in 1..pool.offer_counter |->
                                    LET o == get_offer(pool, i - 1)
                                    IN [LpOffer_new(i - 1, o[2], o[3], None)
                                            EXCEPT !.is_active = o[4]]],
                     !.out = <<>>]
    /\ last' = [op |-> "add_offer", ret |-> "unit", val |-> 0, args |-> <<>>]
    /\ UNCHANGED <<pool, user, hist, bal0>>

\* match_request for a new request; a deal it returns awaits its commit.
ProvisionalMatch ==
    \E amount \in RaceAmounts, deal_id \in DealWords :
        /\ Len(engine.pending) < MaxPending
        /\ \A i \in 1..Len(engine.pending) : engine.pending[i].deal_id # deal_id
        /\ LET request == UnlockRequest_new(Len(engine.pending), amount, 0, 1)
               deal == match_request(engine.offers, request, deal_id)
           IN /\ engine' = [engine EXCEPT
                               !.out = deal,
                               !.pending = IF deal # None THEN Append(@, deal[1])
                                           ELSE @]
              /\ last' = [op |-> "match_request", ret |-> "felt",
                          val |-> Len(deal), args |-> <<amount>>]
        /\ UNCHANGED <<pool, user, hist, bal0>>

\* accept_match with what a deal holds.
commit_deal(s, deal) ==
    accept_match(s, deal.offer.offer_id, deal.request.commitment, deal.advance_amount,
                 deal.settlement_note_hash, deal.deal_id)

\* A provisional deal is committed: accept_match is called with what it holds.
CommitMatch ==
    \E i \in 1..Len(engine.pending) :
        /\ LET deal == engine.pending[i]
               r == commit_deal(pool, deal)
           IN /\ pool' = r.state
              /\ last' = Call(Race, "accept_match", r,
                              <<deal.offer.offer_id, deal.request.commitment,
                                deal.advance_amount, deal.settlement_note_hash,
                                deal.deal_id>>)
        /\ engine' = [engine EXCEPT
                         !.out = <<>>,
                         !.pending = SubSeq(@, 1, i - 1) \o SubSeq(@, i + 1, Len(@))]
        /\ UNCHANGED <<user, hist, bal0>>

RaceNext ==
    \/ CreateOffer(Race)
    \/ CancelOffer(Race)
    \/ SnapshotOffers
    \/ ProvisionalMatch
    \/ CommitMatch

\* match_request for the request of the user account against the pool's
\* second offer, which the LP gives any of the APRs, under a deal id that is
\* not on the pool; the deal awaits its commit.
MatchEarning ==
    \E apr \in OfferAprs, deal_id \in Earn.deals :
        /\ engine.pending = <<>>
        /\ hist.note = <<>>
        /\ hist.locked # <<>>
        /\ get_deal(pool, deal_id[1]) = <<0, 0, 0, 0>>
        /\ LET o == get_offer(pool, 1)
               offer == LpOffer_new(1, o[2], o[3], apr)
               request == UnlockRequest_new(0, hist.locked[1], 0, 1)
               deal == match_request(<<offer>>, request, deal_id)
           IN /\ engine' = [engine EXCEPT
                               !.offers = <<offer>>,
                               !.out = deal,
                               !.pending = IF deal # None THEN <<deal[1]>> ELSE @]
              /\ last' = [op |-> "match_request", ret |-> "felt",
                          val |-> Len(deal), args |-> <<request.amount>>]
        /\ UNCHANGED <<pool, user, hist, bal0>>

\* The settlement note of the pending deal is created and published, with
\* the request's id, amount and cooldown end and the deal's id as inputs.
PublishEarningNote ==
    /\ engine.pending # <<>>
    /\ hist.note = <<>>
    /\ LET deal == engine.pending[1]
       IN hist' = [hist EXCEPT !.note = settlement_note_config(
                                            deal.request.request_id,
                                            deal.request.amount,
                                            deal.request.cooldown_end_timestamp,
                                            deal.deal_id[1])]
    /\ UNCHANGED <<pool, user, last, bal0, engine>>

\* The pending deal is committed once its settlement note is published.
CommitEarning == hist.note # <<>> /\ CommitMatch

\* The steps from a match to the settlement of its deal.
EarningNext ==
    \/ MatchEarning
    \/ PublishEarningNote
    \/ CommitEarning
    \/ MarkRequestMatched(Earn)
    \/ ExecuteSettlementNote

(***************************************************************************)
(* Calls on the pricing calculator.                                        *)
(***************************************************************************)
AdvanceFee ==
    \E principal \in 0..MaxPrincipal :
        /\ last' = [op |-> "advance_fee", ret |-> "felt",
                    val |-> advance_fee(principal), args |-> <<principal>>]
        /\ UNCHANGED <<pool, user, hist, bal0, engine>>

NetAdvance ==
    \E principal \in 0..MaxPrincipal :
        /\ last' = [op |-> "net_advance", ret |-> "felt",
                    val |-> net_advance(principal), args |-> <<principal>>]
        /\ UNCHANGED <<pool, user, hist, bal0, engine>>

LpFeeShare ==
    \E total_fee \in 0..MaxPrincipal :
        /\ last' = [op |-> "lp_fee_share", ret |-> "felt",
                    val |-> lp_fee_share(total_fee), args |-> <<total_fee>>]
        /\ UNCHANGED <<pool, user, hist, bal0, engine>>

ProtocolFeeShare ==
    \E total_fee \in 0..MaxPrincipal :
        /\ last' = [op |-> "protocol_fee_share", ret |-> "felt",
                    val |-> protocol_fee_share(total_fee), args |-> <<total_fee>>]
        /\ UNCHANGED <<pool, user, hist, bal0, engine>>

PricingNext ==
    \/ AdvanceFee
    \/ NetAdvance
    \/ LpFeeShare
    \/ ProtocolFeeShare

(***************************************************************************)
(* Calls on the pricing calculator with 64-bit operands, in a build with   *)
(* overflow checks and in one without.                                     *)
(***************************************************************************)
AdvanceFee64 ==
    \E principal \in Operands, checks \in BOOLEAN :
        /\ LET r == advance_fee_u64(principal, checks)
           IN last' = [op |-> "advance_fee", ret |-> r.ret, val |-> r.val,
                       args |-> <<principal, checks>>]
        /\ UNCHANGED <<pool, user, hist, bal0, engine>>

NetAdvance64 ==
    \E principal \in Operands, checks \in BOOLEAN :
        /\ LET r == net_advance_u64(principal, checks)
           IN last' = [op |-> "net_advance", ret |-> r.ret, val |-> r.val,
                       args |-> <<principal, checks>>]
        /\ UNCHANGED <<pool, user, hist, bal0, engine>>

AprInterest64 ==
    \E principal \in Operands, days \in CooldownDays, checks \in BOOLEAN :
        /\ LET r == apr_interest_u64(principal, days, checks)
           IN last' = [op |-> "apr_interest", ret |-> r.ret, val |-> r.val,
                       args |-> <<principal, checks, days>>]
        /\ UNCHANGED <<pool, user, hist, bal0, engine>>

LpFeeShare64 ==
    \E total_fee \in Operands, checks \in BOOLEAN :
        /\ LET r == lp_fee_share_u64(total_fee, checks)
           IN last' = [op |-> "lp_fee_share", ret |-> r.ret, val |-> r.val,
                       args |-> <<total_fee, checks>>]
        /\ UNCHANGED <<pool, user, hist, bal0, engine>>

ProtocolFeeShare64 ==
    \E total_fee \in Operands, checks \in BOOLEAN :
        /\ LET r == protocol_fee_share_u64(total_fee, checks)
           IN last' = [op |-> "protocol_fee_share", ret |-> r.ret, val |-> r.val,
                       args |-> <<total_fee, checks>>]
        /\ UNCHANGED <<pool, user, hist, bal0, engine>>

Pricing64Next ==
    \/ AdvanceFee64
    \/ NetAdvance64
    \/ AprInterest64
    \/ LpFeeShare64
    \/ ProtocolFeeShare64

(***************************************************************************)
(* Specifications.                                                         *)
(***************************************************************************)
\* The LP pool alone, under every call.
SpecPool == Init /\ [][PoolNext(Wide)]_vars

\* The LP pool alone, under the calls that read or write what accept_match
\* reads or writes: the balance, the offers and the deals.  record_settlement
\* reads the deals and writes only total_earned and the settlement records.
SpecMatch == Init /\ [][MatchNext(Wide)]_vars

\* The LP pool alone, under every call, for one user commitment and one deal.
SpecFrame == Init /\ [][PoolNext(Frame)]_vars

\* The offers of the pool: deposits, withdrawals, create_offer, cancel_offer.
SpecOffers == Init /\ [][OfferNext(Offers)]_vars

\* The pool's matching calls and the advance notes run against it.
SpecNote == Init /\ [][MatchNext(Note) \/ AdvanceNote(Note)]_vars

\* The user account alone, under every call.
SpecUser == Init /\ [][UserNext(Wide)]_vars

\* The user account alone, under every call, with the amounts deposited and
\* locked kept in hist.
SpecStake == Init /\ [][UserNext(Stake)]_vars

\* Both accounts, under every call, for one request, one offer and one deal.
Spec == Init /\ [][PoolNext(Narrow) \/ UserNext(Narrow)]_vars

\* Both accounts under every call, and the settlement notes run against them.
SpecSettle == Init /\ [][PoolNext(Settle) \/ UserNext(Settle) \/ SettlementNote(Settle)]_vars

\* One request, one offer and one deal from the deposits to the settlement,
\* with a scheduler that keeps executing the published settlement note.
SpecSchedule ==
    Init /\ [][ScheduleNext(Narrow)]_vars /\ WF_vars(ExecuteSettlementNote)

\* The counters of both accounts, with total_earned at the width of a Felt.
InitCounters ==
    /\ pool = [PoolInit EXCEPT !.total_earned = u64(0)]
    /\ user = UserInit
    /\ last = [op |-> "init", ret |-> "felt", val |-> 0, args |-> <<>>]
    /\ hist = HistInit
    /\ bal0 = 0
    /\ engine = EngineInit

SpecCounters == InitCounters /\ [][CounterNext(Counters)]_vars

\* The LP pool alone, under every call, for deal ids that share their first
\* element.
SpecAppend == Init /\ [][PoolNext(SharedIds)]_vars

\* The user account alone, under every call, with commitments whose first
\* element is not 0.
SpecRematch == Init /\ [][UserNext(Rematch)]_vars

\* The LP pool alone, under every call, with the cancelled offers kept.
SpecCancel == Init /\ [][PoolNext(Cancel)]_vars

\* The sequence create_offer, accept_match, record_settlement on a pool
\* constructed with an initial USDC balance.
InitSequence ==
    /\ \E b \in 0..MaxBalance :
          /\ pool = [PoolInit EXCEPT !.usdc_balance = b]
          /\ bal0 = b
    /\ user = UserInit
    /\ last = [op |-> "init", ret |-> "felt", val |-> 0, args |-> <<>>]
    /\ hist = HistInit
    /\ engine = EngineInit

NextSequence ==
    \/ last.op = "init" /\ CreateOffer(Single)
    \/ last.op = "create_offer" /\ last.ret = "felt" /\ AcceptMatch(Single)
    \/ last.op = "accept_match" /\ last.ret = "true" /\ RecordSettlement(Single)

SpecSequence == InitSequence /\ [][NextSequence]_vars

\* A pool constructed with a USDC balance, on which two offers were made, and
\* a user account constructed with a staked balance, on which a request was
\* made.
InitEarnings ==
    /\ \E amount \in EarningAmounts :
          LET c == LpOffer_compute_commitment(1, EarningBalance, 1)
              p0 == [PoolInit EXCEPT !.usdc_balance = EarningBalance]
              p1 == create_offer(p0, 1, 1, LpOffer_compute_commitment(0, 1, 1)).state
              p2 == create_offer(p1, EarningBalance, 1, c).state
              u0 == [UserInit EXCEPT !.staked_balance = EarningBalance]
              request == UnlockRequest_new(0, amount, 0, 1)
              u1 == create_unlock_request(u0, amount, 0, request.commitment, 1).state
          IN /\ pool = p2
             /\ user = u1
             /\ hist = [HistInit EXCEPT !.locked = <<amount>>]
    /\ last = [op |-> "init", ret |-> "felt", val |-> 0, args |-> <<>>]
    /\ bal0 = EarningBalance
    /\ engine = EngineInit

\* One request from its match to the settlement of its deal.
SpecEarnings == InitEarnings /\ [][EarningNext]_vars

\* A pool constructed with a USDC balance, under every call, with the USDC
\* deposited, withdrawn and advanced kept.
SpecLedger == InitSequence /\ [][PoolNext(Ledger)]_vars

\* The matching engine alone.
SpecEngine == Init /\ [][EngineNext]_vars

\* A pool constructed with a USDC balance, its offer, the engine's snapshot of
\* it, the provisional deals and their commits.
InitRace ==
    /\ \E b \in RaceBalances :
          /\ pool = [PoolInit EXCEPT !.usdc_balance = b]
          /\ bal0 = b
    /\ user = UserInit
    /\ last = [op |-> "init", ret |-> "felt", val |-> 0, args |-> <<>>]
    /\ hist = HistInit
    /\ engine = EngineInit

SpecRace == InitRace /\ [][RaceNext]_vars

\* The pricing calculator alone.
SpecPricing == Init /\ [][PricingNext]_vars

\* The pricing calculator alone, on 64-bit operands.
SpecPricing64 == Init /\ [][Pricing64Next]_vars

(***************************************************************************)
(* Properties.                                                             *)
(***************************************************************************)
OfferIds == 0..MaxOffers

AdvanceAmounts == 0..MaxAmount

\* C1: in every reachable state of the pool, for every offer_id, commitment,
\* advance_amount and deal_id, if the offer is not active, or advance_amount is
\* outside the offer's stored [min_amount, max_amount], or usdc_balance is
\* below advance_amount, then accept_match returns false and the state it
\* leaves is the state it found: balance, offers, deals, settlements, earnings
\* and counter.  Every step that an accept_match returning false takes leaves
\* the pool unchanged.
C1_AcceptMatchRejectsWithoutWrite ==
    /\ [](\A offer_id \in OfferIds, c \in CommitWords, a \in AdvanceAmounts,
            d \in DealWords :
            LET offer == get_offer(pool, offer_id)
                r == accept_match(pool, offer_id, c, a, ZeroWord, d)
            IN (~offer[4] \/ a > offer[2] \/ a < offer[3] \/ pool.usdc_balance < a)
                   => (r.ret = "false" /\ r.state = pool))
    /\ [][(last'.op = "accept_match" /\ last'.ret = "false") => pool' = pool]_vars

\* C1 witness: an accept_match has just returned false against an active
\* offer whose min_amount the pool balance no longer covers, with a deal
\* already recorded.
C1_Witness ==
    /\ last.op = "accept_match"
    /\ last.ret = "false"
    /\ get_offer(pool, 0)[4]
    /\ pool.usdc_balance < get_offer(pool, 0)[3]
    /\ pool.matched_deals # EmptyMap

\* C2: in every reachable state of the pool, an accept_match that returns true
\* was given an active offer, an advance_amount within the offer's stored
\* [min_amount, max_amount] and a balance of at least advance_amount; it
\* leaves usdc_balance lower by exactly advance_amount, and get_deal(deal_id[0])
\* then returns the first element of the user commitment, advance_amount, the
\* first element of the settlement note hash and offer_id.
C2_AcceptMatchDebitsAndRecords ==
    \A offer_id \in OfferIds, c \in CommitWords, a \in AdvanceAmounts,
       h \in {ZeroWord, <<3, 0, 0, 0>>}, d \in DealWords :
        LET offer == get_offer(pool, offer_id)
            r == accept_match(pool, offer_id, c, a, h, d)
        IN r.ret = "true" =>
             /\ offer[4]
             /\ offer[3] <= a /\ a <= offer[2]
             /\ pool.usdc_balance >= a
             /\ r.state.usdc_balance = pool.usdc_balance - a
             /\ get_deal(r.state, d[1]) = <<c[1], a, h[1], offer_id>>

\* C2 witness: an accept_match has just returned true and left a deal with a
\* non-zero advance_amount, in a state where a further accept_match succeeds.
C2_Witness ==
    /\ last.op = "accept_match"
    /\ last.ret = "true"
    /\ \E d \in DealWords : get_deal(pool, d[1])[2] > 0
    /\ \E d \in DealWords, a \in AdvanceAmounts :
          accept_match(pool, 0, <<1, 0, 0, 0>>, a, ZeroWord, d).ret = "true"

\* The final state of the sequence create_offer, accept_match, record_settlement.
SequenceDone == last.op = "record_settlement" /\ last.ret = "true"

C4_NoDoubleMatch ==
    [][(last'.op = "accept_match" /\ last'.ret = "true" /\ last'.args[2][1] # 0)
          => \A d \in DealWords : get_deal(pool, d[1])[1] # last'.args[2][1]]_vars

\* C5, as claimed: a record_settlement that returns true, and so credits
\* total_earned, is never for a deal that is already settled.
C5_NoDoubleSettle ==
    [][(last'.op = "record_settlement" /\ last'.ret = "true")
          => ~is_deal_settled(pool, last'.args[1])]_vars

\* C6, as claimed: no step takes a deal from settled (is_deal_settled true) to
\* not settled.
C6_SettledIsOneWay ==
    [][\A d \in DealWords :
         is_deal_settled(pool, d[1]) => is_deal_settled(pool', d[1])]_vars

RequestIds == 0..MaxRequests

Times == 0..MaxTime

\* A request is Unmatched while its commitment is stored and no LP commitment is.
Unmatched(s, request_id) ==
    /\ MapGet(s.unlock_requests, Key(request_id, 0)) # 0
    /\ MapGet(s.unlock_requests, Key(request_id, 1)) = 0

\* authorize_settlement is the only writer of a request's settled flag, and
\* writes it exactly when it returns true, which it does only when its
\* current_timestamp is at or after its cooldown_end_timestamp.
Authorized(s, request_id) == MapGet(s.unlock_requests, Key(request_id, 3)) = 1

\* C7, as claimed: every deal that is settled on the pool is paired (by its
\* stored user commitment) with a request for which authorize_settlement has
\* returned true.
C7_SettledOnlyAfterAuthorization ==
    \A d \in DealWords :
        is_deal_settled(pool, d[1]) =>
            \E request_id \in RequestIds :
                /\ get_request_commitment(user, request_id) = get_deal(pool, d[1])[1]
                /\ Authorized(user, request_id)

\* A request is Matched while its commitment and an LP commitment are stored.
Matched(s, request_id) ==
    /\ MapGet(s.unlock_requests, Key(request_id, 0)) # 0
    /\ MapGet(s.unlock_requests, Key(request_id, 1)) # 0

\* C8, as claimed: no step takes a request from Matched back to Unmatched;
\* after every step a request that was Matched is still Matched, and
\* cancel_request on it returns false.
C8_MatchedIsOneWay ==
    [][\A request_id \in RequestIds :
         Matched(user, request_id) =>
             /\ Matched(user', request_id)
             /\ \A amount \in AdvanceAmounts :
                   cancel_request(user', request_id, amount).ret = "false"]_vars

\* C9, as claimed: once mark_request_matched has returned true for a request,
\* cancel_request on it with any amount returns false and leaves the staked
\* balance and every request field as they are.
C9_CancelAfterMatchFails ==
    \A request_id \in hist.matched, amount \in AdvanceAmounts :
        LET r == cancel_request(user, request_id, amount)
        IN r.ret = "false" /\ r.state = user

\* C10: once cancel_request has returned true for a request id, every
\* cancel_request, mark_request_matched and authorize_settlement on that id,
\* with any arguments, returns false and leaves the staked balance and every
\* stored field as they are, and the request counter, the id the next
\* create_unlock_request returns, is above that id.
C10_CancelIsTerminal ==
    \A request_id \in hist.cancelled :
        /\ \A amount \in AdvanceAmounts :
              LET r == cancel_request(user, request_id, amount)
              IN r.ret = "false" /\ r.state = user
        /\ \A lp \in CommitWords, h \in {ZeroWord, <<3, 0, 0, 0>>} :
              LET r == mark_request_matched(user, request_id, lp, h)
              IN r.ret = "false" /\ r.state = user
        /\ \A amount \in AdvanceAmounts, now \in Times, cooldown_end \in Times :
              LET r == authorize_settlement(user, request_id, amount, now, cooldown_end)
              IN r.ret = "false" /\ r.state = user
        /\ user.request_counter > request_id

\* C10 witness: a request has been cancelled, a later request has been created
\* and matched, and a cancel_request has just returned false.
C10_Witness ==
    /\ 0 \in hist.cancelled
    /\ 1 \in hist.matched
    /\ last.op = "cancel_request"
    /\ last.ret = "false"

RECURSIVE SumLocked(_, _)
\* The sum of the amounts locked by the requests of ids that are not cancelled.
SumLocked(locked, cancelled) ==
    IF locked = <<>>
    THEN 0
    ELSE SumLocked(SubSeq(locked, 1, Len(locked) - 1), cancelled)
         + (IF (Len(locked) - 1) \in cancelled THEN 0 ELSE locked[Len(locked)])

\* C11, as claimed: after any sequence of deposit_staked_assets,
\* create_unlock_request and cancel_request (and the other calls on the user
\* account), the staked balance plus the amounts locked by the requests not
\* yet cancelled equals the total deposited.
C11_StakedConservation ==
    user.staked_balance + SumLocked(hist.locked, hist.cancelled) = hist.deposited

\* C12, as claimed: for every request id a create_unlock_request has returned
\* (the ids below request_counter) that no mark_request_matched and no
\* cancel_request has returned true for, cancel_request with the locked
\* amount returns true and adds that amount to the staked balance.
C12_UnmatchedRequestCancellable ==
    \A request_id \in 0..(user.request_counter - 1) :
        request_id \notin (hist.matched \cup hist.cancelled) =>
            LET amount == hist.locked[request_id + 1]
                r == cancel_request(user, request_id, amount)
            IN /\ r.ret = "true"
               /\ r.state.staked_balance = user.staked_balance + amount

\* C13: in every reachable state of the user account, for every request id,
\* amount and pair of timestamps, authorize_settlement returns false and
\* leaves the state as it found it when current_timestamp is below
\* cooldown_end_timestamp or the request has no LP commitment (is unmatched);
\* otherwise it returns true and the state it leaves differs from the one it
\* found exactly by the request's settled flag being 1.  Every step of an
\* authorize_settlement that returned false leaves the user account unchanged.
C13_AuthorizeSettlementGate ==
    /\ [](\A request_id \in RequestIds, amount \in AdvanceAmounts,
            now \in 0..(MaxTime + 1), cooldown_end \in 0..(MaxTime + 1) :
            LET r == authorize_settlement(user, request_id, amount, now, cooldown_end)
                lp == MapGet(user.unlock_requests, Key(request_id, 1))
            IN IF now < cooldown_end \/ lp = 0
               THEN r.ret = "false" /\ r.state = user
               ELSE /\ r.ret = "true"
                    /\ Authorized(r.state, request_id)
                    /\ r.state = [user EXCEPT !.unlock_requests =
                                      MapSet(@, Key(request_id, 3), 1)])
    /\ [][(last'.op = "authorize_settlement" /\ last'.ret = "false")
             => user' = user]_vars

\* C13 witness: an authorize_settlement called with current_timestamp equal to
\* cooldown_end_timestamp (both 1) has just returned true and set the settled
\* flag of request 0, while request 1 exists unmatched.
C13_Witness ==
    /\ last.op = "authorize_settlement"
    /\ last.ret = "true"
    /\ last.args[1] = 0
    /\ last.args[3] = 1 /\ last.args[4] = 1
    /\ Authorized(user, 0)
    /\ Unmatched(user, 1)

\* C14, as claimed: an authorize_settlement that returns true is never for a
\* request whose settled flag is already set.
C14_NoDoubleAuthorize ==
    [][(last'.op = "authorize_settlement" /\ last'.ret = "true")
          => ~Authorized(user, last'.args[1])]_vars

\* C15, as claimed: for every two provisional deals on the same offer, while
\* the offer is active on the pool and the pool balance covers each advance
\* but not both, committing one with accept_match returns true and committing
\* the other after it returns false and leaves the pool as the first commit
\* left it; and committing a provisional deal whose offer is not active on the
\* pool returns false and leaves the pool unchanged.
C15_CommitOrderDecides ==
    /\ \A i \in 1..Len(engine.pending), j \in 1..Len(engine.pending) :
          LET first == engine.pending[i]
              second == engine.pending[j]
              r1 == commit_deal(pool, first)
              r2 == commit_deal(r1.state, second)
          IN (/\ i # j
              /\ first.offer.offer_id = second.offer.offer_id
              /\ get_offer(pool, first.offer.offer_id)[4]
              /\ pool.usdc_balance >= first.advance_amount
              /\ pool.usdc_balance >= second.advance_amount
              /\ pool.usdc_balance < first.advance_amount + second.advance_amount)
                 => /\ r1.ret = "true"
                    /\ r2.ret = "false"
                    /\ r2.state = r1.state
    /\ \A i \in 1..Len(engine.pending) :
          LET deal == engine.pending[i]
              r == commit_deal(pool, deal)
          IN ~get_offer(pool, deal.offer.offer_id)[4]
                 => r.ret = "false" /\ r.state = pool

\* C16, as claimed: for every request amount, every deal match_request
\* returns is on an active offer with
\* min_amount <= deal.advance_amount <= max_amount.
C16_DealWithinOfferBounds ==
    \A amount \in Principals :
        LET deal == match_request(engine.offers, UnlockRequest_new(1, amount, 0, 0),
                                  <<1, 0, 0, 0>>)
        IN deal # None =>
             /\ deal[1].offer.is_active
             /\ deal[1].offer.min_amount <= deal[1].advance_amount
             /\ deal[1].advance_amount <= deal[1].offer.max_amount

\* The offers of the engine a request of this amount may be matched with.
Eligible(amount) ==
    {i \in 1..Len(engine.offers) :
        /\ engine.offers[i].is_active
        /\ engine.offers[i].min_amount <= amount
        /\ amount <= engine.offers[i].max_amount}

\* C17: for every offer list of the engine and every request amount,
\* find_matches returns each active offer with
\* min_amount <= amount <= max_amount once and no other offer, in ascending
\* order of effective APR (custom_apr_bps, or 1000 when there is none), offers
\* of equal effective APR in their input order; it returns the empty list
\* when no offer is eligible.
C17_FindMatchesFiltersAndSorts ==
    \A amount \in Principals :
        LET matches == find_matches(engine.offers, UnlockRequest_new(1, amount, 0, 0))
            apr(offer) == IF offer.custom_apr_bps = None THEN 1000
                          ELSE offer.custom_apr_bps[1]
        IN /\ Len(matches) = Cardinality(Eligible(amount))
           /\ {matches[k] : k \in 1..Len(matches)}
                  = {engine.offers[i] : i \in Eligible(amount)}
           /\ \A k \in 1..Len(matches), l \in 1..Len(matches) :
                 k < l => \/ apr(matches[k]) < apr(matches[l])
                          \/ /\ apr(matches[k]) = apr(matches[l])
                             /\ matches[k].offer_id < matches[l].offer_id
           /\ (Eligible(amount) = {}) => matches = <<>>

\* C17 witness: find_matches has just returned three offers, the third added
\* (APR 900) first, then the first added (no custom APR) in front of the
\* second added (custom APR 1000).
C17_Witness ==
    /\ last.op = "find_matches"
    /\ Len(engine.out) = 3
    /\ engine.out[1].offer_id = 3 /\ engine.out[1].custom_apr_bps = Some(900)
    /\ engine.out[2].offer_id = 1 /\ engine.out[2].custom_apr_bps = None
    /\ engine.out[3].offer_id = 2 /\ engine.out[3].custom_apr_bps = Some(1000)

\* C18: for every offer list of the engine and every request, match_request
\* returns None exactly when find_matches returns the empty list; otherwise it
\* returns a deal whose request is the request, whose offer is the first
\* element of find_matches, whose advance_amount is the request's
\* net_advance() and whose is_settled is false.
C18_MatchRequestTakesFirst ==
    \A amount \in Principals, deal_id \in DealWords :
        LET request == UnlockRequest_new(1, amount, 0, 0)
            matches == find_matches(engine.offers, request)
            deal == match_request(engine.offers, request, deal_id)
        IN /\ (deal = None) <=> (matches = <<>>)
           /\ deal # None =>
                /\ Len(deal) = 1
                /\ deal[1].request = request
                /\ deal[1].offer = matches[1]
                /\ deal[1].advance_amount = amount - ((amount * 500) \div 10000)
                /\ deal[1].is_settled = FALSE

\* C18 witness: match_request has just returned a deal on the second offer
\* added, which has a lower APR than the first, for a request whose fee is not
\* 0; a request of amount 41 gets None.
C18_Witness ==
    /\ last.op = "match_request"
    /\ last.args = <<20>>
    /\ engine.out # None
    /\ engine.out[1].offer.offer_id = 2
    /\ engine.out[1].advance_amount = 19
    /\ Len(find_matches(engine.offers, UnlockRequest_new(1, 20, 0, 0))) >= 2
    /\ match_request(engine.offers, UnlockRequest_new(1, 41, 0, 0), <<1, 0, 0, 0>>) = None

C20_FeePlusNetIsPrincipal ==
    /\ \A principal \in 0..MaxPrincipal :
          /\ advance_fee(principal) + net_advance(principal) = principal
          /\ net_advance(principal) <= principal
    /\ last.op = "net_advance" =>
          /\ last.val + ((last.args[1] * 500) \div 10000) = last.args[1]
          /\ last.val <= last.args[1]

\* C20 witness: net_advance has just returned less than its argument (the fee
\* is not 0), for a principal whose fee is truncated.
C20_Witness ==
    /\ last.op = "net_advance"
    /\ last.args[1] = 39
    /\ last.val = 38

\* floor(a * k / d), exactly.
ExactMulDiv(a, k, d) == trim(div_bytes(mul_bytes(a, k, 0), d, 0))

\* C21, as claimed: every value a pricing function returns is the truncating
\* formula of its argument: advance_fee(p) = floor(p*500/10000),
\* apr_interest(p, d) = floor(p*1000*d/(10000*365)),
\* lp_fee_share(f) = floor(f*8000/10000),
\* protocol_fee_share(f) = floor(f*2000/10000); advance_fee(3000 USDC) is
\* 150 USDC, net_advance(3000 USDC) is 2850 USDC and
\* apr_interest(3000 USDC, 14) is above 11 USDC and below 12 USDC.
C21_PricingIsTruncatingFormula ==
    last.ret = "felt" =>
        /\ last.op = "advance_fee" =>
              trim(last.val) = ExactMulDiv(last.args[1], 500, 10000)
        /\ last.op = "apr_interest" =>
              trim(last.val) = trim(div_bytes(mul_bytes(mul_bytes(last.args[1], 1000, 0),
                                                        last.args[3], 0),
                                              3650000, 0))
        /\ last.op = "lp_fee_share" =>
              trim(last.val) = ExactMulDiv(last.args[1], 8000, 10000)
        /\ last.op = "protocol_fee_share" =>
              trim(last.val) = ExactMulDiv(last.args[1], 2000, 10000)
        /\ (last.op = "advance_fee" /\ last.args[1] = usdc_to_raw(3000)) =>
              last.val = usdc_to_raw(150)
        /\ (last.op = "net_advance" /\ last.args[1] = usdc_to_raw(3000)) =>
              last.val = usdc_to_raw(2850)
        /\ (last.op = "apr_interest" /\ last.args[1] = usdc_to_raw(3000)
                /\ last.args[3] = 14) =>
              /\ u64_div(last.val, ONE_USDC) = u64(11)
              /\ last.val # usdc_to_raw(11)

\* C22, as claimed: for a successful create_unlock_request, one of the four
\* fields kept under the returned request id holds the amount.
C22_CreateRequestStoresAmount ==
    \A amount \in 0..MaxStaked, t \in Times, c \in CommitWords :
        LET r == create_unlock_request(user, amount, t, c, 0)
        IN r.ret = "felt" =>
             \E offset \in 0..3 :
                 MapGet(r.state.unlock_requests, Key(r.val, offset)) = amount

\* C22, amended: in every reachable state of the user account,
\* create_unlock_request aborts and leaves the state as it found it when
\* amount exceeds the staked balance; otherwise it lowers the staked balance
\* by exactly amount, returns the request counter and raises it by one, and
\* stores the first element of the commitment under the returned id and
\* nothing else (the amount and the cooldown end are not stored).  The counter
\* never decreases, so each returned id is above every id returned before.
C22_CreateRequestStoresCommitment ==
    /\ [](\A amount \in 0..(MaxStaked + 1), t \in Times, c \in CommitWords :
            LET r == create_unlock_request(user, amount, t, c, 0)
            IN IF amount > user.staked_balance
               THEN r.ret = "abort" /\ r.state = user
               ELSE /\ r.ret = "felt"
                    /\ r.val = user.request_counter
                    /\ get_request_commitment(r.state, r.val) = c[1]
                    /\ r.state =
                         [staked_balance  |-> user.staked_balance - amount,
                          request_counter |-> user.request_counter + 1,
                          unlock_requests |->
                              MapSet(user.unlock_requests, Key(r.val, 0), c[1])])
    /\ [][user'.request_counter >= user.request_counter]_vars
    /\ [][(last'.op = "create_unlock_request" /\ last'.ret = "felt")
             => /\ last'.val = user.request_counter
                /\ user'.request_counter > last'.val]_vars

\* C22 witness: a second create_unlock_request has just returned id 1, for a
\* commitment whose first element is stored, in a state where a request for
\* more than the balance aborts.
C22_Witness ==
    /\ last.op = "create_unlock_request"
    /\ last.ret = "felt"
    /\ last.val = 1
    /\ get_request_commitment(user, 0) # 0
    /\ get_request_commitment(user, 1) # 0
    /\ user.staked_balance = 1
    /\ create_unlock_request(user, 2, 0, <<1, 0, 0, 0>>, 0).ret = "abort"

\* C23, as claimed: in every reachable state of the user account,
\* mark_request_matched returns false and leaves the state as it is for a
\* request whose commitment is unset; for every other request and every LP
\* commitment it returns true, stores the LP commitment, and leaves the
\* request Matched: cancel_request then returns false and
\* authorize_settlement at the cooldown end returns true.
C23_MarkMatchedMakesMatched ==
    \A request_id \in RequestIds, lp \in CommitWords :
        LET r == mark_request_matched(user, request_id, lp, ZeroWord)
        IN IF get_request_commitment(user, request_id) = 0
           THEN r.ret = "false" /\ r.state = user
           ELSE /\ r.ret = "true"
                /\ MapGet(r.state.unlock_requests, Key(request_id, 1)) = lp[1]
                /\ Matched(r.state, request_id)
                /\ \A amount \in AdvanceAmounts :
                      cancel_request(r.state, request_id, amount).ret = "false"
                /\ authorize_settlement(r.state, request_id, 1, 1, 1).ret = "true"

\* C24, as claimed: after every step of the pool, record_settlement on a deal
\* id that holds no deal returns false and leaves the state as it is; and
\* once an accept_match has returned true for a deal id,
\* record_settlement on it, with any staked_assets_received, fee_earned and
\* interest_earned, returns true, raises total_earned by
\* floor(fee_earned * 8000 / 10000) + interest_earned and leaves
\* is_deal_settled true.
C24_RecordSettlementOnRecordedDeal ==
    [][/\ \A d \in DealWords, staked \in AdvanceAmounts, fee \in {0, 5, 7} :
            get_deal(pool', d[1]) = <<0, 0, 0, 0>> =>
                LET r == record_settlement(pool', d[1], staked, fee, 1)
                IN r.ret = "false" /\ r.state = pool'
       /\ (last'.op = "accept_match" /\ last'.ret = "true") =>
             \A staked \in AdvanceAmounts, fee \in {0, 5, 7}, interest \in {0, 1} :
                 LET r == record_settlement(pool', last'.args[5][1], staked, fee,
                                            interest)
                 IN /\ r.ret = "true"
                    /\ r.state.total_earned =
                           pool'.total_earned + ((fee * 8000) \div 10000) + interest
                    /\ is_deal_settled(r.state, last'.args[5][1])]_vars

\* The ids of the offers create_offer has stored.
StoredOffers == 0..(pool.offer_counter - 1)

\* C25: in every reachable state of the pool, create_offer aborts and leaves
\* the state as it is when usdc_balance is below max_amount; otherwise it
\* returns the offer counter and raises it by one, stores the first element of
\* the commitment, max_amount, min_amount and the active flag under the
\* returned id, and changes nothing else: usdc_balance stays.  The counter
\* never decreases, so the returned id was never returned before.
C25_CreateOfferStoresOffer ==
    /\ [](\A max_amount \in 0..(MaxBalance + 1), min_amount \in 0..(MaxBalance + 1),
            c \in CommitWords :
            LET r == create_offer(pool, max_amount, min_amount, c)
            IN IF pool.usdc_balance < max_amount
               THEN r.ret = "abort" /\ r.state = pool
               ELSE /\ r.ret = "felt"
                    /\ r.val = pool.offer_counter
                    /\ get_offer(r.state, r.val) = <<c[1], max_amount, min_amount, TRUE>>
                    /\ r.state.usdc_balance = pool.usdc_balance
                    /\ r.state.offer_counter = pool.offer_counter + 1
                    /\ r.state.matched_deals = pool.matched_deals
                    /\ r.state.settled_deals = pool.settled_deals
                    /\ r.state.total_earned = pool.total_earned
                    /\ \A offer_id \in StoredOffers :
                          get_offer(r.state, offer_id) = get_offer(pool, offer_id))
    /\ [][pool'.offer_counter >= pool.offer_counter]_vars
    /\ [][(last'.op = "create_offer" /\ last'.ret = "felt")
             => /\ last'.val = pool.offer_counter
                /\ pool'.offer_counter > last'.val
                /\ pool'.usdc_balance = pool.usdc_balance]_vars

\* C25 witness: a second create_offer has just returned id 1 with the balance
\* as it was, the first offer is stored, and a create_offer for more than the
\* balance aborts.
C25_Witness ==
    /\ last.op = "create_offer"
    /\ last.ret = "felt"
    /\ last.val = 1
    /\ get_offer(pool, 0)[2] = 2
    /\ get_offer(pool, 1)[4]
    /\ pool.usdc_balance = 2
    /\ create_offer(pool, 3, 1, <<1, 0, 0, 0>>).ret = "abort"

\* C26: in every reachable state of the pool, cancel_offer on an active offer
\* returns true and clears its active flag and nothing else, and a second
\* cancel_offer after it returns false and leaves the state as the first left
\* it; an offer create_offer has just stored is active, so its first
\* cancel_offer returns true; cancel_offer on an id never created returns
\* false and leaves the state as it is; and every step of a cancel_offer that
\* returned false leaves the pool unchanged.
C26_CancelOfferRoundTrip ==
    /\ [](\A offer_id \in 0..MaxOfferIds :
            LET r1 == cancel_offer(pool, offer_id)
                r2 == cancel_offer(r1.state, offer_id)
            IN /\ get_offer(pool, offer_id)[4] =>
                    /\ r1.ret = "true"
                    /\ ~get_offer(r1.state, offer_id)[4]
                    /\ r1.state = [pool EXCEPT !.active_offers =
                                       MapSet(@, Key(offer_id, 3), 0)]
                    /\ r2.ret = "false"
                    /\ r2.state = r1.state
               /\ offer_id \notin StoredOffers =>
                    r1.ret = "false" /\ r1.state = pool)
    /\ [](\A max_amount \in 0..MaxBalance, min_amount \in 0..MaxBalance :
            LET created == create_offer(pool, max_amount, min_amount, <<1, 0, 0, 0>>)
            IN created.ret = "felt" =>
                   cancel_offer(created.state, created.val).ret = "true")
    /\ [][(last'.op = "cancel_offer" /\ last'.ret = "false") => pool' = pool]_vars

\* C26 witness: a cancel_offer has just returned false on offer 0, which was
\* created and cancelled, while offer 1 is active.
C26_Witness ==
    /\ last.op = "cancel_offer"
    /\ last.ret = "false"
    /\ pool.offer_counter = 2
    /\ ~get_offer(pool, 0)[4]
    /\ get_offer(pool, 1)[4]

\* C27, as claimed: every stored offer has max_amount > 0 and min_amount > 0,
\* and create_unlock_request does not commit a request of amount 0.
C27_AmountsPositive ==
    /\ \A offer_id \in StoredOffers :
          get_offer(pool, offer_id)[2] > 0 /\ get_offer(pool, offer_id)[3] > 0
    /\ \A c \in CommitWords :
          create_unlock_request(user, 0, 0, c, 0).ret # "felt"

\* C28, as claimed: every stored offer has min_amount <= max_amount.
C28_MinAtMostMax ==
    \A offer_id \in StoredOffers :
        get_offer(pool, offer_id)[3] <= get_offer(pool, offer_id)[2]

NoteInputs ==
    {<<a, d, o, c>> : a \in AdvanceAmounts, d \in 1..2, o \in OfferIds, c \in 0..1}

\* C30, as claimed: an advance note completes only on a deal id for which an
\* accept_match has returned true and whose stored user commitment,
\* advance_amount and offer_id equal the note's inputs; on every other input
\* it aborts.
C30_AdvanceNoteNeedsRecordedDeal ==
    \A note_inputs \in NoteInputs :
        LET r == advance_note_run(pool, note_inputs)
            deal == get_deal(pool, note_inputs[2])
            matches == /\ note_inputs[2] \in hist.deals
                       /\ deal[1] = note_inputs[4]
                       /\ deal[2] = note_inputs[1]
                       /\ deal[4] = note_inputs[3]
        IN IF matches THEN r.ret = "unit" ELSE r.ret = "abort"

\* The settled flag of a request on the user account.
RequestSettled(s, request_id) == MapGet(s.unlock_requests, Key(request_id, 3)) = 1

\* C31: every execution of the settlement note aborts when the current
\* timestamp is below cooldown_end_timestamp, when authorize_settlement
\* returns false or when record_settlement returns false; an aborted note
\* leaves the user account and the pool as they were; and a note that
\* completes leaves the request's settled flag set and the deal settled on
\* the pool.
C31_SettlementNoteAllOrNothing ==
    [][last'.op = "settlement_note" =>
         LET request_id == last'.args[1]
             amount == last'.args[2]
             cooldown_end == last'.args[3]
             deal_id == last'.args[4]
             authorized == authorize_settlement(user, request_id, amount,
                                                get_current_timestamp, cooldown_end)
             settled == record_settlement(pool, deal_id, amount, calculate_fee(amount),
                                          calculate_interest(amount, cooldown_end))
         IN /\ (\/ get_current_timestamp < cooldown_end
                 \/ authorized.ret = "false"
                 \/ settled.ret = "false") => last'.ret = "abort"
            /\ last'.ret = "abort" => user' = user /\ pool' = pool
            /\ last'.ret = "unit" =>
                   /\ RequestSettled(user', request_id)
                   /\ is_deal_settled(pool', deal_id)]_vars
\* C32: whenever the settlement note of a request is published, the request
\* is matched, its deal is recorded on the pool and the time has reached the
\* note's cooldown_end_timestamp, the request and the deal are eventually
\* settled.
C32_SettlementEventuallyCompletes ==
    (/\ hist.note # <<>>
     /\ Matched(user, hist.note[1])
     /\ get_deal(pool, hist.note[4]) # <<0, 0, 0, 0>>
     /\ hist.now >= hist.note[3])
        ~> (\E request_id \in Narrow.requests, deal_id \in Narrow.deals :
                /\ RequestSettled(user, request_id)
                /\ is_deal_settled(pool, deal_id[1]))
\* C33: no step decreases total_earned, the offer counter or the request
\* counter, and a create_offer or create_unlock_request that returns an id
\* increases its counter by exactly 1.
C33_CountersMonotonic ==
    [][/\ geq_bytes(pool'.total_earned, pool.total_earned)
       /\ pool'.offer_counter >= pool.offer_counter
       /\ user'.request_counter >= user.request_counter
       /\ (last'.op = "create_offer" /\ last'.ret = "felt" /\ pool' # pool) =>
              pool'.offer_counter = pool.offer_counter + 1
       /\ (last'.op = "create_unlock_request" /\ last'.ret = "felt" /\ user' # user) =>
              user'.request_counter = user.request_counter + 1]_vars
\* C34: no step changes the user commitment, the advance_amount or the
\* offer_id stored for a deal that accept_match has recorded, whatever deal_id
\* the step is made for.
C34_RecordedDealsAppendOnly ==
    [][\A deal_id \in SharedIds.deals :
          get_deal(pool, deal_id[1]) # <<0, 0, 0, 0>> =>
              /\ get_deal(pool', deal_id[1])[1] = get_deal(pool, deal_id[1])[1]
              /\ get_deal(pool', deal_id[1])[2] = get_deal(pool, deal_id[1])[2]
              /\ get_deal(pool', deal_id[1])[4] = get_deal(pool, deal_id[1])[4]]_vars
\* C35: a mark_request_matched made on a request that is already matched
\* does not return true and leaves the stored LP commitment as it is.
C35_LpCommitmentSetOnce ==
    [][\A request_id \in Rematch.requests :
          (Matched(user, request_id) /\ last'.op = "mark_request_matched") =>
              /\ MapGet(user'.unlock_requests, Key(request_id, 1))
                     = MapGet(user.unlock_requests, Key(request_id, 1))
              /\ ~(last'.ret = "true" /\ last'.args[1] = request_id)]_vars
\* C36: in every state reached after cancel_offer has returned true for an
\* offer, the offer's is_active flag is not 1 and every accept_match naming
\* the offer returns false and leaves the pool as it is.
C36_CancelledOfferNeverMatched ==
    \A offer_id \in hist.offers_cancelled :
        /\ MapGet(pool.active_offers, Key(offer_id, 3)) # 1
        /\ \A c \in Cancel.commits, advance_amount \in Cancel.amounts,
              h \in Cancel.hashes, deal_id \in Cancel.deals :
               LET r == accept_match(pool, offer_id, c, advance_amount, h, deal_id)
               IN r.ret = "false" /\ r.state = pool

\* An offer was cancelled, a later create_offer made another offer, the pool
\* holds a balance, and an accept_match naming the cancelled offer returned
\* false.
C36_Witness ==
    /\ last.op = "accept_match"
    /\ last.ret = "false"
    /\ last.args[1] \in hist.offers_cancelled
    /\ MapGet(pool.active_offers, Key(last.args[1], 1)) >= last.args[3]
    /\ MapGet(pool.active_offers, Key(last.args[1], 2)) <= last.args[3]
    /\ pool.usdc_balance >= last.args[3]
    /\ \E other \in Cancel.offers :
          other > last.args[1] /\ MapGet(pool.active_offers, Key(other, 3)) = 1
C38_ActiveOffersFunded ==
    \A offer_id \in StoredOffers :
        MapGet(pool.active_offers, Key(offer_id, 3)) = 1 =>
            pool.usdc_balance >= MapGet(pool.active_offers, Key(offer_id, 1))
C40_AcceptMatchLeavesOffer ==
    \A offer_id \in Wide.offers, c \in Wide.commits, advance_amount \in Wide.amounts, h \in Wide.hashes, deal_id \in Wide.deals :
        LET r == accept_match(pool, offer_id, c, advance_amount, h, deal_id)
            offer == get_offer(pool, offer_id)
        IN r.ret = "true" =>
            /\ get_offer(r.state, offer_id) = offer
            /\ \A c2 \in Wide.commits, further \in Wide.amounts, d2 \in Wide.deals :
                   (further <= offer[2] /\ further >= offer[3] /\ r.state.usdc_balance >= further)
                       => accept_match(r.state, offer_id, c2, further, h, d2).ret = "true"

\* accept_match has succeeded on an offer that backs two recorded deals and
\* is still active.
C40_Witness ==
    /\ last.op = "accept_match"
    /\ last.ret = "true"
    /\ get_deal(pool, 1)[2] >= 1
    /\ get_deal(pool, 2)[2] >= 1
    /\ get_deal(pool, 1)[4] = last.args[1]
    /\ get_deal(pool, 2)[4] = last.args[1]
    /\ get_offer(pool, last.args[1])[4]
    /\ get_offer(pool, last.args[1])[2] >= 1

====
